---- MODULE Spec2Model ----
(***************************************************************************)
(* Staging and merge core of ldp (src/src/merge.cpp).                      *)
(*                                                                         *)
(* Part I   Merge Engine: mergeTable over the loading and history tables.  *)
(* Part II  Staging: stageTable, stagePage and the JSONHandler callbacks.  *)
(***************************************************************************)
EXTENDS Integers, Sequences, FiniteSets, Bags, TLC

(***************************************************************************)
(* Bounds of the model.                                                    *)
(***************************************************************************)
\* Last value of the database clock: caps the number of mergeTable runs.
MaxTime == 3
\* Number of bytes that the symbol "#" of a text stands for.
BlockLen == 5000000
\* Largest number of numbered page files of the table.
MaxPages == 2

VARIABLES
    \* ---- database relations read and written by mergeTable ----
    historyTable,        \* bag of rows (id, data, updated, tenant_id)
    latestHistoryTable,  \* bag of rows (id, data, tenant_id): the temporary table
    loadingTable,        \* set of rows (id, data, tenant_id); id is UNIQUE
    clock,               \* the database clock
    mergeRuns,           \* mergeTable runs since the loading table was last staged
    \* ---- stageTable ----
    pc,                  \* where stageTable is: Start, AnalyzePass, ...
    manifest,            \* the table's _count.txt file: missing, unreadable, count
    pageCount,           \* what readPageCount returned
    pages,               \* the table's numbered page files, in page order
    testFile,            \* the table's _test.json file: <<>> or <<file>>
    commentOnTable,      \* table.moduleName != "mod-agreements"
    tableName,           \* table->tableName
    columns,             \* table->columns
    stats,               \* the statistics map of stageTable: field -> counters
    page,                \* index of the input file being staged, or the next one
    executed,            \* SQL statements the database has executed, in order
    failed,              \* the SQL statement whose execution failed: <<>> or <<q>>
    warnings,            \* warnings written to the log, in order
    encoded,             \* tuples written by writeTuple in the load pass, in order
    \* ---- stagePage: the reader and its JSONHandler ----
    parsing,             \* reader.Parse is running
    events,              \* parse events of the file being read
    pos,                 \* number of events already sent to the handler
    processed,           \* records handed off by EndObject while reading the file
    pass,
    level,
    active,
    record,
    recordCount,
    insertBuffer

mergeVars == <<historyTable, latestHistoryTable, loadingTable, clock, mergeRuns>>

driverVars ==
    <<pc, manifest, pageCount, pages, testFile, commentOnTable, tableName,
      columns, stats, page, executed, failed, warnings, encoded>>

handlerVars ==
    <<parsing, events, pos, processed, pass, level, active, record, recordCount,
      insertBuffer>>

stageVars == <<driverVars, handlerVars>>

\* The variables of stageTable that a failing statement of mergeTable leaves alone.
stageVarsButFailed ==
    <<pc, manifest, pageCount, pages, testFile, commentOnTable, tableName,
      columns, stats, page, executed, warnings, encoded, handlerVars>>

vars == <<mergeVars, stageVars>>

\* The table whose records are anonymized.
UserUsers == <<"user_users">>

\* The tables stageTable is called for.
TableNames == {UserUsers, <<"l", "o", "a", "n", "s">>}

(***************************************************************************)
(* Part I.  Merge Engine                                                   *)
(***************************************************************************)

\* SQL NULL and non-null values of a `data` column, kept apart from the text.
SqlNull == [isnull |-> TRUE, text |-> ""]

SqlText(t) == [isnull |-> FALSE, text |-> t]

Ids == {"x", "y"}

Tenants == {1, 2}

DataTexts == {"A", "B"}

DataValues == {SqlNull} \cup {SqlText(t) : t \in DataTexts}

\* Rows the loading table's DDL admits: id and tenant_id NOT NULL, data nullable.
LoadingRows == [id : Ids, data : DataValues, tenant_id : Tenants]

\* Contents the loading table can have: UNIQUE (id).
LoadingTables ==
    {t \in SUBSET LoadingRows : \A r1, r2 \in t : r1.id = r2.id => r1 = r2}

\* A timestamp truncated to a coarser unit than the clock's.
TruncatedTimestamp(now) == now \div 2

\* dbt.current_timestamp(): the value of the database clock when the INSERT runs.
CurrentTimestamp(now) == now

\* (a)::VARCHAR <> (b)::VARCHAR evaluates to TRUE: the cast of NULL is NULL and a
\* comparison with NULL is not TRUE.
VarcharDiffers(a, b) == ~a.isnull /\ ~b.isnull /\ a.text # b.text

\* The anti-join comparing with <= : a row is then newer than itself.
NewerOrSame(h1, h2) == h1.updated <= h2.updated

\* The anti-join comparing the wrong way round: keeps the oldest row of a key.
Older(h1, h2) == h1.updated > h2.updated

\* h1.updated < h2.updated of the anti-join in the first statement.
Newer(h1, h2) == h1.updated < h2.updated

\* First statement: SELECT id, data, tenant_id FROM history AS h1 WHERE NOT EXISTS
\* (a row h2 of the same tenant_id and id with h1.updated < h2.updated).
LatestHistory(h) ==
    LET rows == {h1 \in BagToSet(h) :
                    ~\E h2 \in BagToSet(h) :
                        /\ h1.tenant_id = h2.tenant_id
                        /\ h1.id = h2.id
                        /\ Newer(h1, h2)}
        proj(r) == [id |-> r.id, data |-> r.data, tenant_id |-> r.tenant_id]
    IN  [p \in {proj(r) : r \in rows} |->
            BagCardinality([r \in {q \in rows : proj(q) = p} |-> h[r]])]

\* Rows of the snapshot that the LEFT JOIN pairs with staged row s.
JoinMatches(s, latest) ==
    {h \in BagToSet(latest) : s.tenant_id = h.tenant_id /\ s.id = h.id}

\* WHERE clause of the second statement on one joined pair; h is the snapshot row.
ChangedFrom(s, h) == VarcharDiffers(s.data, h.data)

\* The WHERE clause without s.data IS NOT NULL.
SelectedCountNoNullTest(s, latest) ==
    IF JoinMatches(s, latest) = {} THEN 1
    ELSE BagCardinality(
            [h \in {m \in JoinMatches(s, latest) : ChangedFrom(s, m)} |-> latest[h]])

\* Number of joined rows of staged row s that pass the WHERE clause:
\* s.data IS NOT NULL AND (h.id IS NULL OR (s.data)::VARCHAR <> (h.data)::VARCHAR).
SelectedCount(s, latest) ==
    IF s.data.isnull THEN 0
    ELSE IF JoinMatches(s, latest) = {} THEN 1
    ELSE BagCardinality(
            [h \in {m \in JoinMatches(s, latest) : ChangedFrom(s, m)} |-> latest[h]])

\* The row the second statement's SELECT list builds from staged row s.
HistoryRowOf(s, ts) ==
    [id |-> s.id, data |-> s.data, updated |-> ts, tenant_id |-> s.tenant_id]

\* Result of the second statement's SELECT, as a bag of history rows.
SelectStaged(loading, latest, ts) ==
    LET sel == {s \in loading : SelectedCount(s, latest) > 0}
        src(r) == CHOOSE s \in sel : HistoryRowOf(s, ts) = r
    IN  [r \in {HistoryRowOf(s, ts) : s \in sel} |-> SelectedCount(src(r), latest)]

\* An upsert: the selected rows replace the rows of the same tenant_id and id.
ReplaceInto(h, rows) ==
    LET kept == {r \in BagToSet(h) :
                    ~\E n \in BagToSet(rows) :
                        n.tenant_id = r.tenant_id /\ n.id = r.id}
    IN  [r \in kept |-> h[r]] (+) rows

\* INSERT INTO history: the selected rows are added to the table.
InsertInto(h, rows) == h (+) rows

\* One run of mergeTable: both statements, on a database whose clock has advanced
\* since the previous run.
mergeTable ==
    /\ clock < MaxTime
    /\ failed = <<>>
    /\ clock' = clock + 1
    /\ latestHistoryTable' = LatestHistory(historyTable)
    /\ historyTable' =
           InsertInto(historyTable,
               SelectStaged(loadingTable, latestHistoryTable',
                            CurrentTimestamp(clock')))
    /\ mergeRuns' = IF mergeRuns < 2 THEN mergeRuns + 1 ELSE mergeRuns
    /\ UNCHANGED loadingTable
    /\ UNCHANGED stageVars

\* A run of mergeTable in which conn->exec throws, in the first statement or in
\* the second: the statements after it are not reached.
mergeTableFails ==
    /\ clock < MaxTime
    /\ failed = <<>>
    /\ clock' = clock + 1
    /\ \E n \in 1..2 :
          /\ latestHistoryTable' = IF n = 1 THEN latestHistoryTable
                                   ELSE LatestHistory(historyTable)
          /\ failed' = <<[kind |-> IF n = 1 THEN "CREATE TEMPORARY TABLE"
                                   ELSE "INSERT INTO history",
                          text |-> <<>>]>>
    /\ UNCHANGED <<historyTable, loadingTable, mergeRuns>>
    /\ UNCHANGED stageVarsButFailed

\* The loading table is dropped and staged again with new contents (stageTable).
stageLoading ==
    /\ clock < MaxTime
    /\ failed = <<>>
    /\ mergeRuns > 0 \/ loadingTable = {}
    /\ \E t \in LoadingTables :
        /\ t # loadingTable
        /\ loadingTable' = t
    /\ mergeRuns' = 0
    /\ UNCHANGED <<historyTable, latestHistoryTable, clock>>
    /\ UNCHANGED stageVars

\* The database before the first merge of the table.
InitDatabase ==
    /\ historyTable = EmptyBag
    /\ latestHistoryTable = EmptyBag
    /\ loadingTable = {}
    /\ clock = 0
    /\ mergeRuns = 0

\* stageTable is not running: the loading table has been staged.
InitNoStaging ==
    /\ pc = "Staged"
    /\ manifest = "count"
    /\ pageCount = 0
    /\ pages = <<>>
    /\ testFile = <<>>
    /\ commentOnTable = TRUE
    /\ tableName = UserUsers
    /\ columns = <<>>
    /\ stats = <<>>
    /\ page = 1
    /\ executed = <<>>
    /\ failed = <<>>
    /\ warnings = <<>>
    /\ encoded = <<>>
    /\ parsing = FALSE
    /\ events = <<>>
    /\ pos = 0
    /\ processed = <<>>
    /\ pass = 1
    /\ level = 0
    /\ active = FALSE
    /\ record = <<>>
    /\ recordCount = 0
    /\ insertBuffer = <<>>

MergeInit == InitDatabase /\ InitNoStaging

MergeNext ==
    \/ mergeTable
    \/ mergeTableFails
    \/ stageLoading

MergeSpec == MergeInit /\ [][MergeNext]_vars

(***************************************************************************)
(* Part II.  Staging: JSON text, documents and parse events                *)
(*                                                                         *)
(* A text is a sequence of symbols.  A symbol is one byte, written as a    *)
(* one-character string, except: "^A" stands for the control byte 0x01,    *)
(* "#" stands for a run of BlockLen printable bytes, and the literals      *)
(* "true", "false" and "null" are written as one symbol each.              *)
(***************************************************************************)

QUOTE == "\""

BSLASH == "\\"

\* The bytes that occur in member names, in ascending order of their value.
AsciiOrder ==
    <<"^A", "\t", "\n", " ", QUOTE, "#", "'", "-", "/",
      "0", "1", "2", "3", "4", "5", "6", "7", "8", "9", ":",
      "A", "B", "C", "D", "E", "F", "G", "H", "I", "J", "K", "L", "M",
      "N", "O", "P", "Q", "R", "S", "T", "U", "V", "W", "X", "Y", "Z",
      BSLASH, "_",
      "a", "b", "c", "d", "e", "f", "g", "h", "i", "j", "k", "l", "m",
      "n", "o", "p", "q", "r", "s", "t", "u", "v", "w", "x", "y", "z", "~">>

Code(c) == CHOOSE i \in 1..Len(AsciiOrder) : AsciiOrder[i] = c

Digits == <<"0", "1", "2", "3", "4", "5", "6", "7", "8", "9">>

DigitSet == {Digits[i] : i \in 1..10}

\* Number of bytes of one symbol; "#" and "@" stand for runs of bytes none of
\* which is escaped.
ByteLen(c) ==
    CASE c = "#" -> BlockLen
      [] c = "@" -> 65500
      [] c \in {"true", "null"} -> 4
      [] c = "false" -> 5
      [] c = "INSERT INTO " -> 12
      [] c = " VALUES " -> 8
      [] c = "loading_" -> 8
      [] c = "user_users" -> 10
      [] c = ";\n" -> 2
      [] c \in {"NULL", "TRUE"} -> 4
      [] c = "FALSE" -> 5
      [] OTHER -> 1

\* string::length() of a text.
RECURSIVE BytesBetween(_, _, _)
BytesBetween(t, lo, hi) ==
    IF lo > hi THEN 0
    ELSE IF lo = hi THEN ByteLen(t[lo])
    ELSE LET mid == (lo + hi) \div 2 IN
         BytesBetween(t, lo, mid) + BytesBetween(t, mid + 1, hi)

TextLen(t) == BytesBetween(t, 1, Len(t))

RECURSIVE Concat(_, _, _)
\* The texts parts[lo] to parts[hi], one after the other.
Concat(parts, lo, hi) ==
    IF lo > hi THEN <<>>
    ELSE IF lo = hi THEN parts[lo]
    ELSE LET mid == (lo + hi) \div 2 IN
         Concat(parts, lo, mid) \o Concat(parts, mid + 1, hi)

RECURSIVE DecimalDigits(_)
\* The decimal digits of a non-negative integer.
DecimalDigits(i) ==
    IF i < 10 THEN <<Digits[i + 1]>>
    ELSE DecimalDigits(i \div 10) \o <<Digits[(i % 10) + 1]>>

\* std::to_string of an integer.
to_string(i) == IF i < 0 THEN <<"-">> \o DecimalDigits(-i) ELSE DecimalDigits(i)

\* An integer beyond 32 bits is held as the four 16-bit words of its 64-bit
\* two's complement representation, most significant word first; w negated:
Negated(w) ==
    LET c4 == 65535 - w[4] + 1
        c3 == 65535 - w[3] + c4 \div 65536
        c2 == 65535 - w[2] + c3 \div 65536
        c1 == 65535 - w[1] + c2 \div 65536
    IN  <<c1 % 65536, c2 % 65536, c3 % 65536, c4 % 65536>>

\* std::to_string of an int64_t, and of a uint64_t below 2^63: the digits come
\* from dividing the four words by ten, again and again.
to_string_int64(w) ==
    LET RECURSIVE Decimal(_)
        Decimal(u) ==
            LET a1 == u[1]
                a2 == (a1 % 10) * 65536 + u[2]
                a3 == (a2 % 10) * 65536 + u[3]
                a4 == (a3 % 10) * 65536 + u[4]
                rest == <<a1 \div 10, a2 \div 10, a3 \div 10, a4 \div 10>>
            IN  (IF rest = <<0, 0, 0, 0>> THEN <<>> ELSE Decimal(rest))
                    \o <<Digits[(a4 % 10) + 1]>>
    IN  IF w[1] >= 32768 THEN <<"-">> \o Decimal(Negated(w)) ELSE Decimal(w)

\* A floating-point number is held as its number of tenths.
Whole(tenths) == (IF tenths < 0 THEN -tenths ELSE tenths) \div 10

Tenth(tenths) == (IF tenths < 0 THEN -tenths ELSE tenths) % 10

Sign(tenths) == IF tenths < 0 THEN <<"-">> ELSE <<>>

\* std::to_string of a double: six digits after the decimal point.
to_string_double(tenths) ==
    Sign(tenths) \o DecimalDigits(Whole(tenths))
        \o <<".", Digits[Tenth(tenths) + 1], "0", "0", "0", "0", "0">>

\* Documents: a value is [t |-> type, v |-> payload].
JStr(s) == [t |-> "string", v |-> s]

JNum(n) == [t |-> "number", v |-> n]

\* An integer that does not fit 32 bits (kInt64Flag without kIntFlag), as its
\* four words.
JInt64(w) == [t |-> "int64", v |-> w]

\* A number with a fraction, as its number of tenths.
JDbl(tenths) == [t |-> "double", v |-> tenths]

JBool(b) == [t |-> "bool", v |-> b]

JNull == [t |-> "null", v |-> 0]

\* m: a sequence of members [name |-> text, value |-> value], in document order.
JObj(m) == [t |-> "object", v |-> m]

JArr(e) == [t |-> "array", v |-> e]

Member(n, x) == [name |-> n, value |-> x]

\* Parse events the reader sends to the handler: [e |-> callback, a |-> argument].
Ev(e, a) == [e |-> e, a |-> a]

RECURSIVE Events(_)
RECURSIVE MemberEvents(_)
RECURSIVE ElementEvents(_)
\* The events json::Reader::Parse generates for the text of value x.
Events(x) ==
    CASE x.t = "object" ->
            <<Ev("StartObject", 0)>> \o MemberEvents(x.v)
                \o <<Ev("EndObject", Len(x.v))>>
      [] x.t = "array" ->
            <<Ev("StartArray", 0)>> \o ElementEvents(x.v)
                \o <<Ev("EndArray", Len(x.v))>>
      [] x.t = "string" -> <<Ev("String", x.v)>>
      [] x.t = "number" -> <<Ev(IF x.v < 0 THEN "Int" ELSE "Uint", x.v)>>
      [] x.t = "int64" -> <<Ev(IF x.v[1] >= 32768 THEN "Int64" ELSE "Uint64", x.v)>>
      [] x.t = "double" -> <<Ev("Double", x.v)>>
      [] x.t = "bool" -> <<Ev("Bool", x.v)>>
      [] OTHER -> <<Ev("Null", 0)>>

MemberEvents(m) ==
    IF m = <<>> THEN <<>>
    ELSE <<Ev("Key", Head(m).name)>> \o Events(Head(m).value)
            \o MemberEvents(Tail(m))

ElementEvents(e) ==
    IF e = <<>> THEN <<>> ELSE Events(Head(e)) \o ElementEvents(Tail(e))

\* encodeJSON on one byte.
EncodeChar(c) ==
    CASE c = QUOTE -> <<BSLASH, QUOTE>>
      [] c = BSLASH -> <<BSLASH, BSLASH>>
      [] c = "\n" -> <<BSLASH, "n">>
      [] c = "\t" -> <<BSLASH, "t">>
      [] c = "\r" -> <<BSLASH, "r">>
      [] c = "\f" -> <<BSLASH, "f">>
      [] c = "^A" -> <<BSLASH, "u", "0", "0", "0", "1">>
      [] OTHER -> <<c>>

encodeJSON(str) == Concat([i \in 1..Len(str) |-> EncodeChar(str[i])], 1, Len(str))

(***************************************************************************)
(* doc.ParseInsitu<kParseTrailingCommasFlag>: a parser of JSON text that   *)
(* also accepts one trailing comma in an object or array.  A result is     *)
(* [ok, v, p]: whether a value was read, the value, and the next position. *)
(***************************************************************************)
ParseFail == [ok |-> FALSE, v |-> JNull, p |-> 0]

ParseOk(x, p) == [ok |-> TRUE, v |-> x, p |-> p]

\* The byte an escape sequence \c stands for; "" when there is none.
Unescape(c) ==
    CASE c = QUOTE -> QUOTE
      [] c = BSLASH -> BSLASH
      [] c = "/" -> "/"
      [] c = "n" -> "\n"
      [] c = "t" -> "\t"
      [] c = "r" -> "\r"
      [] c = "f" -> "\f"
      [] OTHER -> ""

RECURSIVE ParseString(_, _, _)
\* The string whose opening quote precedes position p.
ParseString(t, p, acc) ==
    IF p > Len(t) THEN ParseFail
    ELSE IF t[p] = QUOTE THEN ParseOk(JStr(acc), p + 1)
    ELSE IF t[p] = BSLASH THEN
        IF p + 1 > Len(t) THEN ParseFail
        ELSE IF t[p + 1] = "u" THEN
            IF p + 5 <= Len(t)
                    /\ SubSeq(t, p + 2, p + 5) = <<"0", "0", "0", "1">>
            THEN ParseString(t, p + 6, Append(acc, "^A"))
            ELSE ParseFail
        ELSE IF Unescape(t[p + 1]) = "" THEN ParseFail
        ELSE ParseString(t, p + 2, Append(acc, Unescape(t[p + 1])))
    ELSE IF t[p] \in {"\n", "\t", "^A"} THEN ParseFail
    ELSE ParseString(t, p + 1, Append(acc, t[p]))

DigitValue(c) == CHOOSE d \in 0..9 : Digits[d + 1] = c

RECURSIVE ParseDigits(_, _, _)
\* The digits from position p: [v |-> their value, p |-> the next position].
ParseDigits(t, p, acc) ==
    IF p <= Len(t) /\ t[p] \in DigitSet
    THEN ParseDigits(t, p + 1, 10 * acc + DigitValue(t[p]))
    ELSE [v |-> acc, p |-> p]

RECURSIVE SkipDigits(_, _)
SkipDigits(t, p) ==
    IF p <= Len(t) /\ t[p] \in DigitSet THEN SkipDigits(t, p + 1) ELSE p

\* A number from position p: a sign, digits, and a fraction; the value of a
\* fraction is kept to its first digit.  An integer of more than nine digits
\* is read into four words; it is an Int (or Uint) when it fits 31 bits and
\* else an Int64 (or Uint64).
ParseNumber(t, p) ==
    LET negative == t[p] = "-"
        first == IF negative THEN p + 1 ELSE p
        last == SkipDigits(t, first)
        whole == ParseDigits(t, first, 0)
        signed(n) == IF negative THEN -n ELSE n
        RECURSIVE Words(_, _)
        Words(q, w) ==
            IF q = last THEN w
            ELSE LET a4 == 10 * w[4] + DigitValue(t[q])
                     a3 == 10 * w[3] + a4 \div 65536
                     a2 == 10 * w[2] + a3 \div 65536
                     a1 == 10 * w[1] + a2 \div 65536
                 IN  Words(q + 1, <<a1 % 65536, a2 % 65536, a3 % 65536, a4 % 65536>>)
        wide == Words(first, <<0, 0, 0, 0>>)
    IN  IF last = first THEN ParseFail
        ELSE IF last - first > 9
        THEN IF wide[1] = 0 /\ wide[2] = 0 /\ wide[3] < 32768
             THEN ParseOk(JNum(signed(wide[3] * 65536 + wide[4])), last)
             ELSE ParseOk(JInt64(IF negative THEN Negated(wide) ELSE wide), last)
        ELSE IF whole.p <= Len(t) /\ t[whole.p] = "."
        THEN IF whole.p + 1 <= Len(t) /\ t[whole.p + 1] \in DigitSet
             THEN ParseOk(JDbl(signed(10 * whole.v + DigitValue(t[whole.p + 1]))),
                          SkipDigits(t, whole.p + 1))
             ELSE ParseFail
        ELSE ParseOk(JNum(signed(whole.v)), whole.p)

RECURSIVE ParseValue(_, _)
RECURSIVE ParseMembers(_, _, _)
RECURSIVE ParseElements(_, _, _)
ParseValue(t, p) ==
    IF p > Len(t) THEN ParseFail
    ELSE CASE t[p] = "{" -> ParseMembers(t, p + 1, <<>>)
           [] t[p] = "[" -> ParseElements(t, p + 1, <<>>)
           [] t[p] = QUOTE -> ParseString(t, p + 1, <<>>)
           [] t[p] \in DigitSet \cup {"-"} -> ParseNumber(t, p)
           [] t[p] = "true" -> ParseOk(JBool(TRUE), p + 1)
           [] t[p] = "false" -> ParseOk(JBool(FALSE), p + 1)
           [] t[p] = "null" -> ParseOk(JNull, p + 1)
           [] OTHER -> ParseFail

\* Members of an object from position p: at the start, or after a comma.
ParseMembers(t, p, acc) ==
    IF p > Len(t) THEN ParseFail
    ELSE IF t[p] = "}" THEN ParseOk(JObj(acc), p + 1)
    ELSE IF t[p] # QUOTE THEN ParseFail
    ELSE LET k == ParseString(t, p + 1, <<>>) IN
        IF ~k.ok \/ k.p > Len(t) \/ t[k.p] # ":" THEN ParseFail
        ELSE LET x == ParseValue(t, k.p + 1)
                 acc2 == Append(acc, Member(k.v.v, x.v))
             IN  IF ~x.ok \/ x.p > Len(t) THEN ParseFail
                 ELSE IF t[x.p] = "," THEN ParseMembers(t, x.p + 1, acc2)
                 ELSE IF t[x.p] = "}" THEN ParseOk(JObj(acc2), x.p + 1)
                 ELSE ParseFail

\* Elements of an array from position p: at the start, or after a comma.
ParseElements(t, p, acc) ==
    IF p > Len(t) THEN ParseFail
    ELSE IF t[p] = "]" THEN ParseOk(JArr(acc), p + 1)
    ELSE LET x == ParseValue(t, p)
             acc2 == Append(acc, x.v)
         IN  IF ~x.ok \/ x.p > Len(t) THEN ParseFail
             ELSE IF t[x.p] = "," THEN ParseElements(t, x.p + 1, acc2)
             ELSE IF t[x.p] = "]" THEN ParseOk(JArr(acc2), x.p + 1)
             ELSE ParseFail

\* The document ParseInsitu leaves: the parsed value, or, after a parse error,
\* a document with the error flag set that is still of type null.
ParseInsitu(t) ==
    LET r == ParseValue(t, 1) IN
    IF r.ok /\ r.p = Len(t) + 1
    THEN [error |-> FALSE, root |-> r.v]
    ELSE [error |-> TRUE, root |-> JNull]

(***************************************************************************)
(* Serialization of a document and SQL text                                *)
(***************************************************************************)

\* json::Writer::WriteString: the body of a JSON string, escaped.
WriteString(str) == <<QUOTE>> \o encodeJSON(str) \o <<QUOTE>>

\* json::PrettyWriter::WriteIndent: a line break and four spaces per level.
Indent(depth) ==
    LET RECURSIVE Spaces(_)
        Spaces(n) == IF n = 0 THEN <<>> ELSE <<" ">> \o Spaces(n - 1)
    IN  <<"\n">> \o Spaces(4 * depth)

RECURSIVE WriteValue(_, _, _)
RECURSIVE WriteMembers(_, _, _, _)
RECURSIVE WriteElements(_, _, _, _)
\* doc.Accept(writer): json::PrettyWriter when pretty, else json::Writer.
WriteValue(x, pretty, depth) ==
    CASE x.t = "object" ->
            IF x.v = <<>> THEN <<"{", "}">>
            ELSE <<"{">> \o WriteMembers(x.v, pretty, depth + 1, TRUE)
                    \o (IF pretty THEN Indent(depth) ELSE <<>>) \o <<"}">>
      [] x.t = "array" ->
            IF x.v = <<>> THEN <<"[", "]">>
            ELSE <<"[">> \o WriteElements(x.v, pretty, depth + 1, TRUE)
                    \o (IF pretty THEN Indent(depth) ELSE <<>>) \o <<"]">>
      [] x.t = "string" -> WriteString(x.v)
      [] x.t = "number" -> to_string(x.v)
      [] x.t = "int64" -> to_string_int64(x.v)
      [] x.t = "double" ->
            Sign(x.v) \o DecimalDigits(Whole(x.v)) \o <<".", Digits[Tenth(x.v) + 1]>>
      [] x.t = "bool" -> IF x.v THEN <<"true">> ELSE <<"false">>
      [] OTHER -> <<"null">>

WriteMembers(m, pretty, depth, first) ==
    IF m = <<>> THEN <<>>
    ELSE (IF first THEN <<>> ELSE <<",">>)
            \o (IF pretty THEN Indent(depth) ELSE <<>>)
            \o WriteString(Head(m).name)
            \o (IF pretty THEN <<":", " ">> ELSE <<":">>)
            \o WriteValue(Head(m).value, pretty, depth)
            \o WriteMembers(Tail(m), pretty, depth, FALSE)

WriteElements(e, pretty, depth, first) ==
    IF e = <<>> THEN <<>>
    ELSE (IF first THEN <<>> ELSE <<",">>)
            \o (IF pretty THEN Indent(depth) ELSE <<>>)
            \o WriteValue(Head(e), pretty, depth)
            \o WriteElements(Tail(e), pretty, depth, FALSE)

\* dbt.encodeStringConst: a quoted SQL string constant.
EscapeSqlChar(c) ==
    CASE c = "'" -> <<"'", "'">>
      [] c = BSLASH -> <<BSLASH, BSLASH>>
      [] OTHER -> <<c>>

EscapeSql(str) == Concat([i \in 1..Len(str) |-> EscapeSqlChar(str[i])], 1, Len(str))

encodeStringConst(str) == <<"'">> \o EscapeSql(str) \o <<"'">>

\* idmap->makeSK: the surrogate key of a natural id, as decimal text; the same
\* id yields the same key.
makeSK(id) ==
    <<"1">> \o Concat([i \in 1..Len(id) |-> to_string(Code(id[i]))], 1, Len(id))

\* loadingTableName(table.tableName).
loadingTableName == <<"loading_">> \o tableName

\* Index of the first member of object x named name, or 0: doc.FindMember.
FindMember(x, name) ==
    LET found == {i \in 1..Len(x.v) : x.v[i].name = name} IN
    IF found = {} THEN 0 ELSE CHOOSE i \in found : \A j \in found : i <= j

IdName == <<"i", "d">>

\* doc["id"].GetString() is defined: the document is an object with a string id.
HasStringId(x) ==
    /\ x.t = "object"
    /\ FindMember(x, IdName) # 0
    /\ x.v[FindMember(x, IdName)].value.t = "string"

IdOf(x) == x.v[FindMember(x, IdName)].value.v

(***************************************************************************)
(* processJSONRecord: canonical member order, statistics, anonymization    *)
(***************************************************************************)
RECURSIVE StrLess(_, _)
\* strcmp(s1, s2) < 0
StrLess(s1, s2) ==
    IF s2 = <<>> THEN FALSE
    ELSE IF s1 = <<>> THEN TRUE
    ELSE IF Head(s1) = Head(s2) THEN StrLess(Tail(s1), Tail(s2))
    ELSE Code(Head(s1)) < Code(Head(s2))

\* NameComparator: the member named id first, the others by strcmp.
NameComparator(lhs, rhs) ==
    IF lhs.name = IdName THEN TRUE
    ELSE IF rhs.name = IdName THEN FALSE
    ELSE StrLess(lhs.name, rhs.name)

\* One step of the insertion sort std::sort runs on a short range: m goes to
\* the front when it compares less than the first member, else behind the last
\* member it does not compare less than.
InsertMember(sorted, m) ==
    IF sorted = <<>> THEN <<m>>
    ELSE IF NameComparator(m, sorted[1]) THEN <<m>> \o sorted
    ELSE LET j == CHOOSE k \in 1..Len(sorted) :
                    /\ ~NameComparator(m, sorted[k])
                    /\ \A l \in (k + 1)..Len(sorted) : NameComparator(m, sorted[l])
         IN  SubSeq(sorted, 1, j) \o <<m>> \o SubSeq(sorted, j + 1, Len(sorted))

RECURSIVE SortMembers(_)
\* sort(node->MemberBegin(), node->MemberEnd(), NameComparator())
SortMembers(m) ==
    IF m = <<>> THEN <<>>
    ELSE InsertMember(SortMembers(SubSeq(m, 1, Len(m) - 1)), m[Len(m)])

RECURSIVE SortedDoc(_)
RECURSIVE SortedValues(_)
RECURSIVE SortedElements(_)
\* The document with the members of every object sorted.
SortedDoc(x) ==
    CASE x.t = "object" -> JObj(SortedValues(SortMembers(x.v)))
      [] x.t = "array" -> JArr(SortedElements(x.v))
      [] OTHER -> x

SortedValues(m) ==
    IF m = <<>> THEN <<>>
    ELSE <<Member(Head(m).name, SortedDoc(Head(m).value))>> \o SortedValues(Tail(m))

SortedElements(e) ==
    IF e = <<>> THEN <<>> ELSE <<SortedDoc(Head(e))>> \o SortedElements(Tail(e))

RECURSIVE Visits(_, _, _, _)
RECURSIVE MemberVisits(_, _, _, _, _)
RECURSIVE ElementVisits(_, _, _, _, _)
\* The scalar nodes processJSONRecord visits in a sorted document, in order,
\* each with its path, its depth and its place `at` in the document (the index
\* of the member or element taken at each level).
Visits(x, path, depth, at) ==
    CASE x.t = "object" -> MemberVisits(x.v, path, depth, at, 1)
      [] x.t = "array" -> ElementVisits(x.v, path, depth, at, 1)
      [] OTHER -> <<[path |-> path, depth |-> depth, at |-> at, node |-> x]>>

MemberVisits(m, path, depth, at, i) ==
    IF i > Len(m) THEN <<>>
    ELSE Visits(m[i].value, path \o <<"/">> \o m[i].name, depth + 1, Append(at, i))
            \o MemberVisits(m, path, depth, at, i + 1)

ElementVisits(e, path, depth, at, i) ==
    IF i > Len(e) THEN <<>>
    ELSE Visits(e[i], path \o <<"/">> \o to_string(i - 1), depth + 1, Append(at, i))
            \o ElementVisits(e, path, depth, at, i + 1)

RECURSIVE ValueAt(_, _)
\* The node at a place of the document.
ValueAt(x, at) ==
    IF at = <<>> THEN x
    ELSE IF x.t = "object" THEN ValueAt(x.v[Head(at)].value, Tail(at))
    ELSE ValueAt(x.v[Head(at)], Tail(at))

\* Type Signal Counters of one field.
NoCounts ==
    [null |-> 0, boolean |-> 0, number |-> 0, integer |-> 0, floating |-> 0,
     string |-> 0, uuid |-> 0, dateTime |-> 0]

\* s matches pattern pat: "d" a digit, "h" a hexadecimal digit, else the byte.
Matches(s, pat) ==
    /\ Len(s) = Len(pat)
    /\ \A i \in 1..Len(pat) :
          CASE pat[i] = "d" -> s[i] \in DigitSet
            [] pat[i] = "h" ->
                  s[i] \in DigitSet \cup {"a", "b", "c", "d", "e", "f"}
                                    \cup {"A", "B", "C", "D", "E", "F"}
            [] OTHER -> s[i] = pat[i]

DateTimeHead ==
    <<"d", "d", "d", "d", "-", "d", "d", "-", "d", "d", "T",
      "d", "d", ":", "d", "d", ":", "d", "d">>

\* regex_match against \d{4}-\d{2}-\d{2}T\d{2}:\d{2}:\d{2}((\.\d{3}\+\d{4})|(Z))
looksLikeDateTime(str) ==
    \/ Matches(str, DateTimeHead \o <<"Z">>)
    \/ Matches(str, DateTimeHead \o <<".", "d", "d", "d", "+", "d", "d", "d", "d">>)

RECURSIVE Repeat(_, _)
Repeat(c, n) == IF n = 0 THEN <<>> ELSE <<c>> \o Repeat(c, n - 1)

\* isUUID: 8-4-4-4-12 hexadecimal digits.
isUUID(str) ==
    Matches(str, Repeat("h", 8) \o <<"-">> \o Repeat("h", 4) \o <<"-">>
                    \o Repeat("h", 4) \o <<"-">> \o Repeat("h", 4) \o <<"-">>
                    \o Repeat("h", 12))

\* The counters holding the last node only.
CountedLast(c, node, now) ==
    CASE node.t = "null" -> [NoCounts EXCEPT !.null = 1]
      [] node.t = "bool" -> [NoCounts EXCEPT !.boolean = 1]
      [] node.t \in {"number", "int64", "double"} ->
            IF now.t \in {"number", "int64"}
            THEN [NoCounts EXCEPT !.number = 1, !.integer = 1]
            ELSE [NoCounts EXCEPT !.number = 1, !.floating = 1]
      [] node.t = "string" ->
            [NoCounts EXCEPT !.string = 1,
                             !.uuid = IF isUUID(now.v) THEN 1 ELSE 0,
                             !.dateTime = IF looksLikeDateTime(now.v) THEN 1 ELSE 0]
      [] OTHER -> c

\* The counters of a field after one more scalar node of the field: the case is
\* chosen by the type the node had when it was visited, and the tests on the
\* value see the node as it is now.
Counted(c, node, now) ==
    CASE node.t = "null" -> [c EXCEPT !.null = @ + 1]
      [] node.t = "bool" -> [c EXCEPT !.boolean = @ + 1]
      [] node.t \in {"number", "int64", "double"} ->
            IF now.t \in {"number", "int64"}
            THEN [c EXCEPT !.number = @ + 1, !.integer = @ + 1]
            ELSE [c EXCEPT !.number = @ + 1, !.floating = @ + 1]
      [] node.t = "string" ->
            [c EXCEPT !.string = @ + 1,
                      !.uuid = IF isUUID(now.v) THEN @ + 1 ELSE @,
                      !.dateTime = IF looksLikeDateTime(now.v) THEN @ + 1 ELSE @]
      [] OTHER -> c

\* (*stats)[path.c_str() + 1] counted for a visited scalar of depth 1.
CollectStats(st, visit, now) ==
    LET field == Tail(visit.path)
        c == IF field \in DOMAIN st THEN st[field] ELSE NoCounts
    IN  IF visit.depth = 1
        THEN [f \in DOMAIN st \cup {field} |->
                 IF f = field THEN Counted(c, visit.node, now) ELSE st[f]]
        ELSE st

\* Paths the anonymization policy leaves alone.
PublicPaths == {<<"/", "i", "d">>, <<"/", "n">>}

\* possiblePersonalData(path)
possiblePersonalData(path) == path \notin PublicPaths

RECURSIVE PointerTokens(_, _)
\* json::Pointer(path): the tokens of the path; ~0 stands for ~, ~1 for /.
PointerTokens(path, token) ==
    IF path = <<>> THEN <<token>>
    ELSE IF Head(path) = "/" THEN <<token>> \o PointerTokens(Tail(path), <<>>)
    ELSE IF Head(path) = "~" /\ Len(path) > 1 /\ path[2] \in {"0", "1"}
         THEN PointerTokens(Tail(Tail(path)),
                            Append(token, IF path[2] = "0" THEN "~" ELSE "/"))
    ELSE PointerTokens(Tail(path), Append(token, Head(path)))

Tokens(path) == IF path = <<>> THEN <<>> ELSE Tail(PointerTokens(path, <<>>))

RECURSIVE TokenIndex(_, _)
\* The array index a token spells, or -1.
TokenIndex(token, acc) ==
    IF token = <<>> THEN acc
    ELSE IF Head(token) \notin DigitSet THEN -1
    ELSE TokenIndex(Tail(token),
                    10 * acc + ((CHOOSE i \in 1..10 : Digits[i] = Head(token)) - 1))

IsIndex(token) ==
    /\ token # <<>>
    /\ TokenIndex(token, 0) >= 0
    /\ Len(token) > 1 => Head(token) # "0"

\* Sequence s with its i-th element replaced by x.
ReplaceAt(s, i, x) == SubSeq(s, 1, i - 1) \o <<x>> \o SubSeq(s, i + 1, Len(s))

RECURSIVE PointerSet(_, _, _)
\* json::Pointer(path).Set(*root, value): the value at the path is replaced;
\* a member or element the path names and the document lacks is created.
PointerSet(x, tokens, value) ==
    IF tokens = <<>> THEN value
    ELSE LET token == Head(tokens)
             asArray == x.t = "array" \/ (IsIndex(token) /\ x.t # "object")
         IN  IF asArray /\ (IsIndex(token) \/ token = <<"-">>)
             THEN LET old == IF x.t = "array" THEN x.v ELSE <<>>
                      i == IF token = <<"-">> THEN Len(old) + 1
                           ELSE TokenIndex(token, 0) + 1
                      e == IF i > Len(old)
                           THEN old \o Repeat(JNull, i - Len(old))
                           ELSE old
                  IN  JArr(ReplaceAt(e, i, PointerSet(e[i], Tail(tokens), value)))
             ELSE LET old == IF x.t = "object" THEN x.v ELSE <<>>
                      o == JObj(old)
                      m == IF FindMember(o, token) = 0
                           THEN Append(old, Member(token, JNull))
                           ELSE old
                      i == FindMember(JObj(m), token)
                  IN  JObj(ReplaceAt(m, i,
                              Member(token,
                                     PointerSet(m[i].value, Tail(tokens), value))))

\* The value the anonymizer sets in place of a scalar.
Neutral(node) ==
    CASE node.t = "bool" -> JBool(FALSE)
      [] node.t \in {"number", "int64", "double"} -> JNum(0)
      [] node.t = "string" -> JStr(<<>>)
      [] OTHER -> node

\* The document after the Set call made for a visited scalar.
Anonymized(root, visit) ==
    IF visit.node.t # "null" /\ possiblePersonalData(visit.path)
    THEN PointerSet(root, Tokens(visit.path), Neutral(visit.node))
    ELSE root

RECURSIVE ProcessVisits(_, _, _, _, _)
\* The document and the statistics after the visits: for each scalar, first the
\* Set call, then the counters.
ProcessVisits(root, st, visits, collectStats, anonymizeTable) ==
    IF visits = <<>> THEN [doc |-> root, stats |-> st]
    ELSE LET visit == Head(visits)
             doc == IF anonymizeTable THEN Anonymized(root, visit) ELSE root
             counted == IF collectStats
                        THEN CollectStats(st, visit, ValueAt(doc, visit.at))
                        ELSE st
         IN  ProcessVisits(doc, counted, Tail(visits), collectStats, anonymizeTable)

\* processJSONRecord(&doc, &doc, collectStats, anonymizeTable, "", 0, stats):
\* the document and the statistics it leaves.
processJSONRecord(root, collectStats, anonymizeTable, st) ==
    LET sorted == SortedDoc(root) IN
    ProcessVisits(sorted, st, Visits(sorted, <<>>, 0, <<>>), collectStats,
                  anonymizeTable)

RECURSIVE Grown(_, _)
\* A Set call has added a member to an object, or an element to an array, of
\* document a (giving b): the iterators of the loops over it are invalidated.
Grown(a, b) ==
    /\ a.t \in {"object", "array"}
    /\ b.t = a.t
    /\ \/ Len(b.v) # Len(a.v)
       \/ \E i \in 1..Len(a.v) :
             IF a.t = "object" THEN Grown(a.v[i].value, b.v[i].value)
             ELSE Grown(a.v[i], b.v[i])

(***************************************************************************)
(* Table schema: the columns derived from the statistics                   *)
(***************************************************************************)
\* ColumnSchema::selectColumnType: first rule that matches.
selectColumnType(c) ==
    LET nonNull == c.boolean + c.number + c.string IN
    IF c.string > 0 /\ c.string = nonNull /\ c.uuid = c.string THEN "id"
    ELSE IF c.number > 0 /\ c.number = nonNull /\ c.integer = c.number
         THEN "bigint"
    ELSE IF c.boolean > 0 /\ c.boolean = nonNull THEN "boolean"
    ELSE IF c.number > 0 /\ c.number = nonNull THEN "numeric"
    ELSE IF c.string > 0 /\ c.string = nonNull /\ c.dateTime = c.string
         THEN "timestamptz"
    ELSE "varchar"

\* ColumnSchema::columnTypeToString
columnTypeToString(type) ==
    CASE type = "id" -> "VARCHAR(36)"
      [] type = "bigint" -> "BIGINT"
      [] type = "boolean" -> "BOOLEAN"
      [] type = "numeric" -> "NUMERIC(12,2)"
      [] type = "timestamptz" -> "TIMESTAMPTZ"
      [] OTHER -> "VARCHAR(65535)"

RECURSIVE decodeCamelCase(_)
\* decodeCamelCase: an upper-case letter becomes "_" and its lower-case letter.
decodeCamelCase(str) ==
    IF str = <<>> THEN <<>>
    ELSE (IF Code(Head(str)) \in Code("A")..Code("Z")
          THEN <<"_", AsciiOrder[Code(Head(str)) - Code("A") + Code("a")]>>
          ELSE <<Head(str)>>) \o decodeCamelCase(Tail(str))

RECURSIVE SortedFields(_)
\* The keys of the statistics map in the order the map iterates over them.
SortedFields(fields) ==
    IF fields = {} THEN <<>>
    ELSE LET least == CHOOSE f \in fields :
                        \A g \in fields \ {f} : StrLess(f, g)
         IN  <<least>> \o SortedFields(fields \ {least})

RECURSIVE ColumnsOf(_, _)
\* One column per field, in the order of the fields.
ColumnsOf(st, fields) ==
    IF fields = <<>> THEN <<>>
    ELSE <<[columnName |-> decodeCamelCase(Head(fields)),
            sourceColumnName |-> Head(fields),
            columnType |-> selectColumnType(st[Head(fields)])]>>
            \o ColumnsOf(st, Tail(fields))

\* table->columns after the second `if (pass == 1)` block of stageTable.
TableColumns(st) == ColumnsOf(st, SortedFields(DOMAIN st))

(***************************************************************************)
(* beginInserts, endInserts, writeTuple                                    *)
(***************************************************************************)
InsertThreshold == 10000000

StringLimit == 65535

beginInserts == <<"INSERT INTO ">> \o loadingTableName \o <<" VALUES ">>

\* The statement endInserts executes: the buffer with ";\n" added.
endInserts(buffer) == [kind |-> "INSERT", text |-> Append(buffer, ";\n")]

\* execDirect trying again until the statement is executed.
execDirectAgain(ex, stmt, ok) == Append(ex, stmt)

\* dbc->execDirect(nullptr, sql): the statements the database has executed after
\* the call; when the database fails (ok is false) the statement is not among
\* them and the call throws.
execDirect(ex, stmt, ok) == IF ok THEN Append(ex, stmt) ELSE ex

RECURSIVE execStatements(_, _, _)
\* Calls of execDirect one after the other, of which the n-th fails (n = 0: none
\* fails); no call follows the one that throws.
execStatements(ex, stmts, n) ==
    IF stmts = <<>> THEN ex
    ELSE IF n = 1 THEN execDirect(ex, Head(stmts), FALSE)
    ELSE execStatements(execDirect(ex, Head(stmts), TRUE), Tail(stmts), n - 1)

\* jsonValue.GetInt(): data_.n.i.i, the number of an Int, and the low 32 bits
\* of the 64-bit representation, read as a signed integer, of any other number.
GetInt(x) ==
    IF x.t = "number" THEN x.v
    ELSE IF x.v[3] >= 32768 THEN (x.v[3] - 65536) * 65536 + x.v[4]
    ELSE x.v[3] * 65536 + x.v[4]

\* The types of value the getter called for a column type is defined on.
\* GetInt tests `RAPIDJSON_ASSERT(data_.f.flags & kIntFlag)`: where the build
\* compiles the assertions in (asserts) it ends the process for a number that
\* is no Int, and else it returns the low 32 bits.
GetterTypes(type, asserts) ==
    CASE type = "bigint" -> IF asserts THEN {"number"} ELSE {"number", "int64"}
      [] type = "numeric" -> {"number", "int64", "double"}
      [] type = "boolean" -> {"bool"}
      [] OTHER -> {"string"}

\* jsonValue.GetDouble(), in tenths.
GetDouble(x) == IF x.t = "number" THEN 10 * x.v ELSE x.v

\* `if (s.length() >= 65535)`: the constant is stored as NULL.
ExceedsStringLimit(s) == TextLen(s) >= StringLimit

\* A string column value: the escaped constant, or NULL when it is too long.
StringValue(str) ==
    LET s == encodeStringConst(str) IN
    IF ExceedsStringLimit(s) THEN <<"NULL">> ELSE s

\* The warning writeTuple logs for one column of table.columns.
ColumnWarnings(x, column) ==
    LET i == FindMember(x, column.sourceColumnName) IN
    IF /\ column.columnName # IdName
       /\ i # 0
       /\ x.v[i].value.t = "string"
       /\ column.columnType \in {"id", "timestamptz", "varchar"}
       /\ ExceedsStringLimit(encodeStringConst(x.v[i].value.v))
    THEN <<[kind |-> "String length exceeds database limit",
            column |-> column.columnName, id |-> IdOf(x)]>>
    ELSE <<>>

RECURSIVE ColumnsWarnings(_, _)
ColumnsWarnings(x, cols) ==
    IF cols = <<>> THEN <<>>
    ELSE ColumnWarnings(x, Head(cols)) \o ColumnsWarnings(x, Tail(cols))

\* writeTuple writing one NULL for every absent or null column.
ColumnTextOneNull(x, column) ==
    LET i == FindMember(x, column.sourceColumnName)
        type == column.columnType
    IN  IF column.columnName = IdName THEN <<>>
        ELSE IF i = 0 \/ x.v[i].value.t = "null"
        THEN <<"NULL", ",">>
        ELSE LET value == x.v[i].value.v IN
             (CASE type = "bigint" -> to_string(GetInt(x.v[i].value))
                [] type = "boolean" -> IF value THEN <<"TRUE">> ELSE <<"FALSE">>
                [] type = "numeric" ->
                      IF x.v[i].value.t = "int64"
                      THEN to_string_int64(value) \o <<".", "0", "0", "0", "0", "0", "0">>
                      ELSE to_string_double(GetDouble(x.v[i].value))
                [] type = "id" -> makeSK(value) \o <<",">> \o StringValue(value)
                [] OTHER -> StringValue(value)) \o <<",">>

\* The text writeTuple adds for one column of table.columns.
ColumnText(x, column) ==
    LET i == FindMember(x, column.sourceColumnName)
        type == column.columnType
    IN  IF column.columnName = IdName THEN <<>>
        ELSE IF i = 0 \/ x.v[i].value.t = "null"
        THEN (IF type = "id" THEN <<"NULL", ",">> ELSE <<>>) \o <<"NULL", ",">>
        ELSE LET value == x.v[i].value.v IN
             (CASE type = "bigint" -> to_string(GetInt(x.v[i].value))
                [] type = "boolean" -> IF value THEN <<"TRUE">> ELSE <<"FALSE">>
                [] type = "numeric" ->
                      IF x.v[i].value.t = "int64"
                      THEN to_string_int64(value) \o <<".", "0", "0", "0", "0", "0", "0">>
                      ELSE to_string_double(GetDouble(x.v[i].value))
                [] type = "id" -> makeSK(value) \o <<",">> \o StringValue(value)
                [] OTHER -> StringValue(value)) \o <<",">>

RECURSIVE ColumnsText(_, _)
ColumnsText(x, cols) ==
    IF cols = <<>> THEN <<>>
    ELSE ColumnText(x, Head(cols)) \o ColumnsText(x, Tail(cols))

\* Every getter writeTuple calls on document x finds a value of its type:
\* doc["id"] is a string, and a present non-null field has the column's type.
Encodable(x, cols, asserts) ==
    /\ HasStringId(x)
    /\ \A k \in 1..Len(cols) :
          LET i == FindMember(x, cols[k].sourceColumnName) IN
          (cols[k].columnName # IdName /\ i # 0 /\ x.v[i].value.t # "null")
              => x.v[i].value.t \in GetterTypes(cols[k].columnType, asserts)

\* `if (data.length() > 65535)`: the JSON text is not stored.
ExceedsDataLimit(data) == TextLen(data) > StringLimit

\* Trailing `data` field: pretty-printed JSON, else compact JSON, else NULL.
DataField(x) ==
    LET prettyText == encodeStringConst(WriteValue(x, TRUE, 0))
        compactText == encodeStringConst(WriteValue(x, FALSE, 0))
    IN  IF ExceedsDataLimit(prettyText)
        THEN IF ExceedsDataLimit(compactText)
             THEN <<"NULL">>
             ELSE compactText
        ELSE prettyText

\* The warnings writeTuple logs for document x: those of the columns, and the
\* one for the `data` field.
TupleWarnings(x, cols) ==
    ColumnsWarnings(x, cols)
        \o (IF DataField(x) = <<"NULL">>
            THEN <<[kind |-> "JSON object size exceeds database limit",
                    column |-> <<"d", "a", "t", "a">>, id |-> IdOf(x)]>>
            ELSE <<>>)

\* The tuple text writeTuple builds for document x, from "(" to ")".
TupleText(x, cols) ==
    <<"(">> \o makeSK(IdOf(x)) \o <<",">>
        \o encodeStringConst(IdOf(x)) \o <<",">>
        \o ColumnsText(x, cols)
        \o DataField(x) \o <<",", "1", ")">>

\* The separator before a tuple: a comma when a tuple precedes it.
TupleSeparator(count) == IF count > 0 THEN <<",">> ELSE <<>>

\* The insert buffer after writeTuple.
writeTuple(x, cols, count, buffer) ==
    buffer \o TupleSeparator(count) \o TupleText(x, cols)

(***************************************************************************)
(* Input files of the table being staged                                   *)
(*                                                                         *)
(* A file is [doc, cut]: the JSON value its text holds and, when cut > 0,  *)
(* the number of parse events the reader delivers before it reports a      *)
(* parse error (the text is malformed from there on); cut = 0 is a text    *)
(* that parses to the end.                                                 *)
(***************************************************************************)
UuidText ==
    <<"0","1","2","3","4","5","6","7","-","8","9","a","b","-","4","c","d","e","-",
      "8","f","0","1","-","2","3","4","5","6","7","8","9","a","b","c","d">>

DateTimeText ==
    <<"2","0","2","0","-","0","1","-","3","1","T","2","3",":","5","9",":","0","0","Z">>

RecordA == JObj(<<Member(IdName, JStr(<<"a">>))>>)

\* A record with a number, a nested object, and nested and empty containers.
RecordB ==
    JObj(<<Member(<<"n">>, JNum(12)),
           Member(IdName, JStr(<<"b">>)),
           Member(<<"p", "G">>, JStr(UuidText)),
           Member(<<"d">>, JStr(DateTimeText)),
           Member(<<"o">>, JObj(<<Member(<<"k">>, JNull)>>)),
           Member(<<"l">>, JArr(<<JBool(TRUE), JArr(<<>>), JObj(<<>>)>>))>>)

\* A record whose string value holds a quote, a backslash and control bytes.
RecordEsc ==
    JObj(<<Member(IdName, JStr(<<"c">>)),
           Member(<<"s">>, JStr(<<QUOTE, BSLASH, "\n", "^A", "/">>)),
           Member(<<"f">>, JDbl(15)),
           Member(<<"m">>, JNum(-3))>>)

\* A record with a key that holds a double quote.
RecordKeyQuote ==
    JObj(<<Member(IdName, JStr(<<"d">>)),
           Member(<<"k", QUOTE>>, JNum(1))>>)

\* A record with a member name that holds the path delimiter.
RecordSlash ==
    JObj(<<Member(IdName, JStr(<<"e">>)),
           Member(<<"a", "/", "b">>, JStr(<<"s">>))>>)

\* A string of n bytes, n >= 65500.
LongText(n) == <<"@">> \o Repeat("x", n - 65500)

\* Records with a string of n bytes in member v.
RecordLong(id, n) ==
    JObj(<<Member(IdName, JStr(<<id>>)), Member(<<"v">>, JStr(LongText(n)))>>)

\* Records whose id is more than BlockLen bytes long.
RecordBig(c) == JObj(<<Member(IdName, JStr(<<"#", c>>))>>)

\* A page as the source API returns it: an object holding the record array.
ApiPage(records) ==
    JObj(<<Member(<<"u">>, JArr(records)), Member(<<"t">>, JNum(Len(records)))>>)

WholeFile(doc) == [doc |-> doc, cut |-> 0]

\* A file whose text breaks off after the first n events.
CutFile(doc, n) == [doc |-> doc, cut |-> n]

PageFiles ==
    { WholeFile(ApiPage(<<RecordA, RecordB>>)),
      WholeFile(ApiPage(<<>>)),
      WholeFile(ApiPage(<<RecordBig("a"), RecordBig("b"), RecordEsc, RecordA>>)),
      WholeFile(ApiPage(<<RecordA, RecordKeyQuote>>)),
      WholeFile(ApiPage(<<RecordSlash>>)),
      \* objects at depth 2 and 3 whose members are out of order
      WholeFile(ApiPage(<<JObj(<<Member(<<"z">>,
                                        JObj(<<Member(<<"b">>, JNum(1)),
                                               Member(IdName, JNum(2)),
                                               Member(<<"a">>,
                                                      JArr(<<JObj(<<Member(<<"d">>, JBool(TRUE)),
                                                                    Member(<<"c">>, JNull)>>)>>))>>)),
                                 Member(IdName, JStr(<<"m">>))>>)>>)),
      \* integers within and beyond 32 bits, and booleans: 5, 4294967301 and
      \* -4294967301
      WholeFile(ApiPage(<<JObj(<<Member(IdName, JStr(<<"v">>)),
                                 Member(<<"w">>, JNum(5)),
                                 Member(<<"q">>, JBool(TRUE))>>),
                          JObj(<<Member(IdName, JStr(<<"w">>)),
                                 Member(<<"w">>, JInt64(<<0, 1, 0, 5>>)),
                                 Member(<<"q">>, JBool(FALSE))>>),
                          JObj(<<Member(IdName, JStr(<<"x">>)),
                                 Member(<<"w">>, JInt64(Negated(<<0, 1, 0, 5>>)))>>)>>)),
      \* strings and records about as long as the database allows
      WholeFile(ApiPage(<<RecordLong("f", 65503), RecordLong("g", 65504),
                          RecordLong("h", 65517), RecordLong("i", 65532),
                          RecordLong("j", 65534), RecordLong("k", 65535)>>)),
      \* objects beside the record array, before and after it
      WholeFile(JObj(<<Member(<<"m">>, JObj(<<Member(<<"k">>, JNum(1))>>)),
                       Member(<<"u">>, JArr(<<RecordA>>)),
                       Member(<<"n">>, JObj(<<Member(<<"j">>, JArr(<<>>))>>))>>)),
      \* an object inside an object beside the record array
      WholeFile(JObj(<<Member(<<"u">>, JArr(<<RecordA>>)),
                       Member(<<"m">>,
                              JObj(<<Member(<<"x">>,
                                            JObj(<<Member(<<"k">>, JNum(1))>>))>>))>>)),
      \* more than one array in the root object
      WholeFile(JObj(<<Member(<<"u">>, JArr(<<RecordA>>)),
                       Member(<<"v">>, JArr(<<>>)),
                       Member(<<"x">>, JArr(<<RecordEsc>>))>>)),
      \* root is the record array itself
      WholeFile(JArr(<<RecordA, RecordB>>)),
      \* elements of the record array that are no objects
      WholeFile(ApiPage(<<JStr(<<"a">>), RecordA, JArr(<<RecordB>>)>>)),
      \* the text ends inside the second record
      CutFile(ApiPage(<<RecordA, RecordB>>), 9) }

TestFiles == {<<>>, <<WholeFile(ApiPage(<<RecordEsc>>))>>}

RECURSIVE SeqsUpTo(_, _)
\* Sequences over S of length at most n.
SeqsUpTo(S, n) ==
    IF n = 0 THEN {<<>>}
    ELSE SeqsUpTo(S, n - 1)
            \cup {Append(q, x) : q \in {r \in SeqsUpTo(S, n - 1) : Len(r) = n - 1},
                                 x \in S}

\* The files stageTable reads in each pass: the pages, then the test file.
Inputs == SubSeq(pages, 1, pageCount) \o testFile

\* The events the reader sends for file f before Parse returns.
FileEvents(f) ==
    IF f.cut = 0 THEN Events(f.doc) ELSE SubSeq(Events(f.doc), 1, f.cut)

(***************************************************************************)
(* JSONHandler callbacks                                                   *)
(***************************************************************************)
\* The reader is about to call handler callback e.
Calls(e) ==
    /\ pc \in {"AnalyzePass", "LoadPass"}
    /\ parsing
    /\ pos < Len(events)
    /\ events[pos + 1].e = e

Arg == events[pos + 1].a

\* What every callback leaves alone, and the reader moving to the next event.
Reader ==
    /\ pos' = pos + 1
    /\ UNCHANGED <<parsing, events, pass>>
    /\ UNCHANGED <<manifest, pageCount, pages, testFile, commentOnTable,
                   tableName, columns, page>>
    /\ UNCHANGED mergeVars

NoSql ==
    UNCHANGED <<pc, stats, executed, failed, warnings, encoded, processed,
                recordCount, insertBuffer>>

\* The record buffer after StartObject at level lv: `record = '{'` at level 2.
StartObjectRecord(rec, lv) ==
    IF lv = 2 THEN <<"{">>
    ELSE IF lv > 2 THEN Append(rec, "{")
    ELSE rec

StartObject ==
    /\ Calls("StartObject")
    /\ record' = StartObjectRecord(record, level)
    /\ level' = level + 1
    /\ UNCHANGED active
    /\ NoSql
    /\ Reader

\* The test in EndObject made one level too low.
IsRecordEndAtTwo(lv) == lv = 2

\* EndObject: `if (level == 3)`, the object that closes is a record.
IsRecordEnd(lv) == lv = 3

\* The load branch of EndObject taken in both passes.
LoadsTuplesAlways(p) == TRUE

\* EndObject: `if (pass == 2)`, tuples are written in the load pass only.
LoadsTuples(p) == p = 2

\* The anonymizer run in both passes.
AnonymizesInBothPasses(p, name) == name = UserUsers

\* EndObject: anonymizeTable, false in pass 1 and else whether the table is
\* user_users.
AnonymizesTable(p, name) == IF p = 1 THEN FALSE ELSE name = UserUsers

\* EndObject at level 3: the record is complete and is processed.
EndRecord ==
    LET rec == Append(record, "}")
        parsed == ParseInsitu(rec).root
        collectStats == pass = 1
        anonymizeTable == AnonymizesTable(pass, tableName)
        done == processJSONRecord(parsed, collectStats, anonymizeTable, stats)
        doc == done.doc
        flush == TextLen(insertBuffer) > InsertThreshold
        buffer == IF flush THEN beginInserts ELSE insertBuffer
        count == IF flush THEN 0 ELSE recordCount
        idle == UNCHANGED <<executed, failed, warnings, encoded, recordCount,
                            insertBuffer>>
    IN  /\ record' = rec
        /\ stats' = done.stats
        /\ \E valid \in (IF Grown(SortedDoc(parsed), doc) THEN BOOLEAN ELSE {TRUE}),
              ok \in (IF LoadsTuples(pass) /\ flush THEN BOOLEAN ELSE {TRUE}),
              asserts \in (IF Encodable(doc, columns, TRUE) THEN {TRUE} ELSE BOOLEAN) :
              /\ IF ~valid
                 THEN \* the loop over an object goes on with an iterator that a Set
                      \* call has invalidated: the process may end here
                      /\ ok
                      /\ pc' = "Aborted"
                      /\ idle
                 ELSE IF ~LoadsTuples(pass)
                 THEN /\ pc' = pc
                      /\ idle
                 ELSE IF ~ok
                 THEN \* execDirect throws in endInserts
                      /\ pc' = "Failed"
                      /\ failed' = <<endInserts(insertBuffer)>>
                      /\ executed' = execDirect(executed, endInserts(insertBuffer), FALSE)
                      /\ UNCHANGED <<warnings, encoded, recordCount, insertBuffer>>
                 ELSE /\ executed' = IF flush
                                     THEN execDirect(executed, endInserts(insertBuffer),
                                                     TRUE)
                                     ELSE executed
                      /\ failed' = failed
                      /\ IF Encodable(doc, columns, asserts)
                         THEN /\ insertBuffer' = writeTuple(doc, columns, count, buffer)
                              /\ recordCount' = count + 1
                              /\ encoded' = Append(encoded, TupleText(doc, columns))
                              /\ warnings' = warnings \o TupleWarnings(doc, columns)
                              /\ pc' = pc
                         ELSE \* a getter of writeTuple fails: the process ends
                              /\ insertBuffer' = buffer
                              /\ recordCount' = count
                              /\ encoded' = encoded
                              /\ warnings' = warnings
                              /\ pc' = "Aborted"
              /\ processed' = Append(processed,
                                     [at |-> pos + 1, text |-> rec,
                                      parsed |-> parsed, doc |-> doc,
                                      written |-> encoded' # encoded])

EndObject ==
    /\ Calls("EndObject")
    /\ IF IsRecordEnd(level)
       THEN EndRecord
       ELSE /\ record' = IF level > 3 THEN record \o <<"}", ",">> ELSE record
            /\ NoSql
    /\ level' = level - 1
    /\ UNCHANGED active
    /\ Reader

StartArray ==
    /\ Calls("StartArray")
    /\ IF level = 1
       THEN /\ active' = TRUE
            /\ insertBuffer' = IF pass = 2 THEN beginInserts ELSE insertBuffer
            /\ record' = record
       ELSE /\ record' = IF level > 1 THEN Append(record, "[") ELSE record
            /\ UNCHANGED <<active, insertBuffer>>
    /\ level' = level + 1
    /\ UNCHANGED <<pc, stats, executed, failed, warnings, encoded, processed,
                   recordCount>>
    /\ Reader

EndArray ==
    /\ Calls("EndArray")
    /\ IF level = 2
       THEN /\ active' = FALSE
            /\ IF recordCount > 0 /\ pass = 2
               THEN \E ok \in BOOLEAN :
                    /\ executed' = execDirect(executed, endInserts(insertBuffer), ok)
                    /\ IF ok
                       THEN /\ insertBuffer' = <<>>
                            /\ UNCHANGED <<pc, failed>>
                       ELSE \* execDirect throws in endInserts
                            /\ insertBuffer' = Append(insertBuffer, ";\n")
                            /\ failed' = <<endInserts(insertBuffer)>>
                            /\ pc' = "Failed"
               ELSE UNCHANGED <<pc, executed, failed, insertBuffer>>
            /\ record' = record
       ELSE /\ record' = IF level > 2 THEN record \o <<"]", ",">> ELSE record
            /\ UNCHANGED <<pc, active, executed, failed, insertBuffer>>
    /\ level' = level - 1
    /\ UNCHANGED <<stats, warnings, encoded, processed, recordCount>>
    /\ Reader

Key ==
    /\ Calls("Key")
    /\ record' = record \o <<QUOTE>> \o Arg \o <<QUOTE, ":">>
    /\ UNCHANGED <<level, active>>
    /\ NoSql
    /\ Reader

\* A scalar callback: the text is added only inside an active record.
Scalar(text) ==
    /\ record' = IF active /\ level > 2 THEN record \o text ELSE record
    /\ UNCHANGED <<level, active>>
    /\ NoSql
    /\ Reader

String ==
    /\ Calls("String")
    /\ Scalar(<<QUOTE>> \o encodeJSON(Arg) \o <<QUOTE, ",">>)

\* JSONHandler::Int: the reader calls it for a negative integer.
Int_ ==
    /\ Calls("Int")
    /\ Scalar(to_string(Arg) \o <<",">>)

\* JSONHandler::Uint: the reader calls it for a non-negative integer.
Uint ==
    /\ Calls("Uint")
    /\ Scalar(to_string(Arg) \o <<",">>)

\* JSONHandler::Int64: the reader calls it for a negative integer beyond 32
\* bits.
Int64 ==
    /\ Calls("Int64")
    /\ Scalar(to_string_int64(Arg) \o <<",">>)

\* JSONHandler::Uint64: the reader calls it for a non-negative integer beyond
\* 32 bits.
Uint64 ==
    /\ Calls("Uint64")
    /\ Scalar(to_string_int64(Arg) \o <<",">>)

Double ==
    /\ Calls("Double")
    /\ Scalar(to_string_double(Arg) \o <<",">>)

Bool ==
    /\ Calls("Bool")
    /\ Scalar(IF Arg THEN <<"true", ",">> ELSE <<"false", ",">>)

Null ==
    /\ Calls("Null")
    /\ Scalar(<<"null", ",">>)

(***************************************************************************)
(* stagePage, createLoadingTable, stageTable                               *)
(***************************************************************************)
\* stagePage up to the call of reader.Parse: a new handler for this file.
stagePage ==
    /\ pc \in {"AnalyzePass", "LoadPass"}
    /\ ~parsing
    /\ page <= Len(Inputs)
    /\ parsing' = TRUE
    /\ events' = FileEvents(Inputs[page])
    /\ pos' = 0
    /\ processed' = <<>>
    /\ pass' = IF pc = "AnalyzePass" THEN 1 ELSE 2
    /\ level' = 0
    /\ active' = FALSE
    /\ record' = <<>>
    /\ recordCount' = 0
    /\ insertBuffer' = <<>>
    /\ UNCHANGED driverVars
    /\ UNCHANGED mergeVars

\* reader.Parse returns, at the end of the text or at a parse error; stagePage
\* does not look at its result, and the handler goes out of scope.
parseReturns ==
    /\ pc \in {"AnalyzePass", "LoadPass"}
    /\ parsing
    /\ pos = Len(events)
    /\ parsing' = FALSE
    /\ page' = page + 1
    /\ level' = 0
    /\ active' = FALSE
    /\ record' = <<>>
    /\ recordCount' = 0
    /\ insertBuffer' = <<>>
    /\ UNCHANGED <<events, pos, processed, pass>>
    /\ UNCHANGED <<pc, manifest, pageCount, pages, testFile, commentOnTable,
                   tableName, columns, stats, executed, failed, warnings, encoded>>
    /\ UNCHANGED mergeVars

RECURSIVE LoadingTableColumns(_)
\* The column definitions createLoadingTable writes for table.columns.
LoadingTableColumns(cols) ==
    IF cols = <<>> THEN <<>>
    ELSE LET column == Head(cols) IN
         (IF column.columnName # IdName
          THEN (IF column.columnType = "id"
                THEN <<QUOTE>> \o column.columnName \o <<"_sk", QUOTE, " BIGINT", ",\n">>
                ELSE <<>>)
                \o <<QUOTE>> \o column.columnName \o <<QUOTE, " ">>
                \o <<columnTypeToString(column.columnType), ",\n">>
          ELSE <<>>) \o LoadingTableColumns(Tail(cols))

\* The statements createLoadingTable executes for table.columns.
createLoadingTable(cols) ==
    <<[kind |-> "CREATE TABLE",
       text |-> <<"CREATE TABLE ">> \o loadingTableName
                    \o <<" (\n", "sk BIGINT NOT NULL", ",\n",
                         "id VARCHAR(65535) NOT NULL", ",\n">>
                    \o LoadingTableColumns(cols)
                    \o <<"data JSON", ",\n", "tenant_id SMALLINT NOT NULL", ",\n",
                         "PRIMARY KEY (sk)", ",\n", "UNIQUE (id)", "\n", ")", ";">>]>>
        \o (IF commentOnTable
            THEN <<[kind |-> "COMMENT ON TABLE", text |-> loadingTableName]>>
            ELSE <<>>)
        \o <<[kind |-> "GRANT", text |-> loadingTableName]>>

\* End of the page loop of pass 1.
finishAnalyze ==
    /\ pc = "AnalyzePass"
    /\ ~parsing
    /\ page > Len(Inputs)
    /\ pc' = "SchemaFinalize"
    /\ UNCHANGED <<manifest, pageCount, pages, testFile, commentOnTable, tableName,
                   columns, stats, page, executed, failed, warnings, encoded>>
    /\ UNCHANGED handlerVars
    /\ UNCHANGED mergeVars

\* The `if (pass == 1)` blocks of stageTable; pass 2 starts at the first page.
finalizeSchema ==
    /\ pc = "SchemaFinalize"
    /\ columns' = columns \o TableColumns(stats)
    /\ \E n \in 0..Len(createLoadingTable(columns')) :
          /\ executed' = execStatements(executed, createLoadingTable(columns'), n)
          /\ IF n = 0
             THEN /\ pc' = "LoadPass"
                  /\ failed' = failed
             ELSE \* execDirect throws in createLoadingTable
                  /\ pc' = "Failed"
                  /\ failed' = <<createLoadingTable(columns')[n]>>
    /\ page' = 1
    /\ UNCHANGED <<manifest, pageCount, pages, testFile, commentOnTable, tableName,
                   stats, warnings, encoded>>
    /\ UNCHANGED handlerVars
    /\ UNCHANGED mergeVars

\* End of the page loop of pass 2: stageTable returns.
finishLoad ==
    /\ pc = "LoadPass"
    /\ ~parsing
    /\ page > Len(Inputs)
    /\ pc' = "Done"
    /\ UNCHANGED <<manifest, pageCount, pages, testFile, commentOnTable, tableName,
                   columns, stats, page, executed, failed, warnings, encoded>>
    /\ UNCHANGED handlerVars
    /\ UNCHANGED mergeVars

\* readPageCount returning the number of page files there are.
PageCountOfFiles(m, p) == Len(p)

\* What readPageCount returns: 0 when the _count.txt file does not exist, else
\* the number the file holds.
PageCountRead(m, p) == IF m = "missing" THEN 0 ELSE Len(p)

\* readPageCount: the number in the table's _count.txt file; a warning and no
\* pages when the file does not exist; an exception when it holds no number.
readPageCount ==
    /\ pc = "Start"
    /\ CASE manifest = "missing" ->
               /\ warnings' = Append(warnings, [kind |-> "File not found",
                                                column |-> <<>>, id |-> <<>>])
               /\ pageCount' = PageCountRead(manifest, pages)
               /\ pc' = "AnalyzePass"
         [] manifest = "unreadable" ->
               /\ pc' = "Failed"
               /\ UNCHANGED <<warnings, pageCount>>
         [] OTHER ->
               /\ pageCount' = PageCountRead(manifest, pages)
               /\ pc' = "AnalyzePass"
               /\ UNCHANGED warnings
    /\ UNCHANGED <<manifest, pages, testFile, commentOnTable, tableName, columns,
                   stats, page, executed, failed, encoded>>
    /\ UNCHANGED handlerVars
    /\ UNCHANGED mergeVars

\* stageTable is called for a table with some input files.  The numbered page
\* files are those the _count.txt file counts; without a readable count, files
\* of an earlier run may still be there.
Init ==
    /\ InitDatabase
    /\ pc = "Start"
    /\ pages \in SeqsUpTo(PageFiles, MaxPages)
    /\ manifest \in (IF Len(pages) <= 1 THEN {"count", "missing", "unreadable"}
                     ELSE {"count"})
    /\ pageCount = 0
    /\ testFile \in TestFiles
    /\ commentOnTable \in BOOLEAN
    /\ tableName \in TableNames
    /\ columns = <<>>
    /\ stats = <<>>
    /\ page = 1
    /\ executed = <<>>
    /\ failed = <<>>
    /\ warnings = <<>>
    /\ encoded = <<>>
    /\ parsing = FALSE
    /\ events = <<>>
    /\ pos = 0
    /\ processed = <<>>
    /\ pass = 1
    /\ level = 0
    /\ active = FALSE
    /\ record = <<>>
    /\ recordCount = 0
    /\ insertBuffer = <<>>

Next ==
    \/ readPageCount
    \/ stagePage
    \/ StartObject
    \/ EndObject
    \/ StartArray
    \/ EndArray
    \/ Key
    \/ String
    \/ Int_
    \/ Uint
    \/ Int64
    \/ Uint64
    \/ Double
    \/ Bool
    \/ Null
    \/ parseReturns
    \/ finishAnalyze
    \/ finalizeSchema
    \/ finishLoad

Spec == Init /\ [][Next]_vars

(***************************************************************************)
(* Claims about the Merge Engine (checked under MergeSpec)                 *)
(***************************************************************************)

\* Rows of history bag h for one (tenant_id, id).
KeyRows(h, t, i) == {r \in BagToSet(h) : r.tenant_id = t /\ r.id = i}

\* Rows of history bag h for one key that carry the key's maximum `updated`.
MaxRows(h, t, i) ==
    {r \in KeyRows(h, t, i) : \A q \in KeyRows(h, t, i) : q.updated <= r.updated}

\* Number of rows of bag b, with multiplicity, that are in set S.
CountRows(b, S) == BagCardinality([r \in S \cap BagToSet(b) |-> b[r]])

\* Rows of snapshot bag b for one (tenant_id, id).
SnapshotRows(b, t, i) == {p \in BagToSet(b) : p.tenant_id = t /\ p.id = i}

\* Rows added to the history table by a step.
Added == historyTable' (-) historyTable

\* A row of Added that was built from staged row s.
AddedFrom(s) ==
    {r \in BagToSet(Added) :
        r.id = s.id /\ r.tenant_id = s.tenant_id /\ r.data = s.data}

\* C1: when mergeTable runs again and the loading table has not changed since the
\* previous run, the run appends no row to the history table.
C1_IdempotentMerge ==
    [][(mergeTable /\ mergeRuns >= 1) => historyTable' = historyTable]_vars

C1_Witness ==
    /\ mergeRuns = 2
    /\ historyTable # EmptyBag
    /\ \E s \in loadingTable : ~s.data.isnull

\* C2: for every (tenant_id, id) present in the history table exactly one history
\* row has the maximum `updated` of the key, and the snapshot built by the first
\* merge statement holds exactly one row for each key it contains, each a key of
\* the history table.
C2_LatestRowUnique ==
    /\ \A r \in BagToSet(historyTable) :
          CountRows(historyTable, MaxRows(historyTable, r.tenant_id, r.id)) = 1
    /\ \A p \in BagToSet(latestHistoryTable) :
          /\ CountRows(latestHistoryTable,
                 SnapshotRows(latestHistoryTable, p.tenant_id, p.id)) = 1
          /\ KeyRows(historyTable, p.tenant_id, p.id) # {}

C2_Witness ==
    \E r \in BagToSet(historyTable) :
        /\ Cardinality(KeyRows(historyTable, r.tenant_id, r.id)) >= 2
        /\ \E p \in BagToSet(latestHistoryTable) :
              p.tenant_id = r.tenant_id /\ p.id = r.id

\* C3: every row of the history table before a step is still in it, unchanged and
\* as many times, after the step: rows are only added.
C3_AppendOnly == [][historyTable \sqsubseteq historyTable']_vars

C3_Witness ==
    /\ mergeRuns >= 1
    /\ \E r \in BagToSet(historyTable) :
          Cardinality(KeyRows(historyTable, r.tenant_id, r.id)) >= 2

\* The append condition of C4 for staged row s against snapshot bag latest.
C4_Condition(s, latest) ==
    /\ ~s.data.isnull
    /\ \/ ~\E h \in BagToSet(latest) : h.tenant_id = s.tenant_id /\ h.id = s.id
       \/ \E h \in BagToSet(latest) :
             /\ h.tenant_id = s.tenant_id
             /\ h.id = s.id
             /\ h.data.text # s.data.text

\* C4: in a run of mergeTable a staged row gets a row appended to the history
\* table if and only if its data is non-null and the snapshot has no row of its
\* key or the snapshot row's data differs as text; and every appended row comes
\* from a staged row.
C4_AppendCondition ==
    [][mergeTable =>
          /\ \A s \in loadingTable :
                AddedFrom(s) # {} <=> C4_Condition(s, latestHistoryTable')
          /\ \A r \in BagToSet(Added) :
                \E s \in loadingTable : r \in AddedFrom(s)]_vars

C4_Witness ==
    /\ mergeRuns = 1
    /\ \E s \in loadingTable : s.data.isnull
    /\ \E s \in loadingTable :
          /\ ~s.data.isnull
          /\ \E p \in BagToSet(latestHistoryTable) :
                p.tenant_id = s.tenant_id /\ p.id = s.id /\ p.data # s.data

\* C5: when a staged row's data differs from the latest history version of its
\* key, the run appends exactly one row for that key, newer than every earlier
\* row of the key; afterwards the key's latest row carries the staged data and
\* the earlier rows are all still there.
C5_ChangedRowAppended ==
    [][mergeTable =>
          \A s \in loadingTable :
              (/\ ~s.data.isnull
               /\ \E m \in MaxRows(historyTable, s.tenant_id, s.id) :
                     m.data.text # s.data.text)
              =>
              /\ CountRows(Added, KeyRows(Added, s.tenant_id, s.id)) = 1
              /\ \A r \in KeyRows(Added, s.tenant_id, s.id) :
                    /\ r.data = s.data
                    /\ \A q \in KeyRows(historyTable, s.tenant_id, s.id) :
                          q.updated < r.updated
              /\ \A m \in MaxRows(historyTable', s.tenant_id, s.id) :
                    m.data = s.data
              /\ historyTable \sqsubseteq historyTable']_vars

C5_Witness ==
    \E r \in BagToSet(historyTable) :
        \E q \in BagToSet(historyTable) :
            /\ q.tenant_id = r.tenant_id
            /\ q.id = r.id
            /\ q.updated < r.updated
            /\ q.data # r.data
            /\ [id |-> r.id, data |-> r.data, tenant_id |-> r.tenant_id]
                   \in loadingTable
            /\ mergeRuns = 1

(***************************************************************************)
(* Claims about staging (checked under Spec)                               *)
(***************************************************************************)

\* The file the reader is reading.
CurrentFile == Inputs[page]

\* The reader has sent every event of the file; Parse is about to return.
AtEndOfFile == pc \in {"AnalyzePass", "LoadPass"} /\ parsing /\ pos = Len(events)

\* Nesting depth of the text after its first p events.
DepthAfter(ev, p) ==
    Cardinality({i \in 1..p : ev[i].e \in {"StartObject", "StartArray"}})
        - Cardinality({i \in 1..p : ev[i].e \in {"EndObject", "EndArray"}})

\* Positions of the events that close an object and return to depth d.
ObjectEnds(ev, d) ==
    {p \in 1..Len(ev) : ev[p].e = "EndObject" /\ DepthAfter(ev, p) = d}

\* The records handed off are, in order, exactly the objects closed at ends.
HandedOffAt(ends) ==
    /\ Len(processed) = Cardinality(ends)
    /\ \A k \in 1..Len(processed) :
          /\ processed[k].at \in ends
          /\ \A j \in 1..(k - 1) : processed[j].at < processed[k].at

\* A complete file whose root is an array of objects.
RootArrayOfObjects(f) ==
    /\ f.cut = 0
    /\ f.doc.t = "array"
    /\ \A i \in 1..Len(f.doc.v) : f.doc.v[i].t = "object"

\* A complete file whose root is an object with one array member, all of whose
\* elements are objects, and otherwise scalar members only.
RootObjectWithRecordArray(f) ==
    /\ f.cut = 0
    /\ f.doc.t = "object"
    /\ Cardinality({i \in 1..Len(f.doc.v) : f.doc.v[i].value.t = "array"}) = 1
    /\ \A i \in 1..Len(f.doc.v) :
          /\ f.doc.v[i].value.t # "object"
          /\ f.doc.v[i].value.t = "array" =>
                \A j \in 1..Len(f.doc.v[i].value.v) :
                    f.doc.v[i].value.v[j].t = "object"

\* The elements of the record array of such a file.
RecordArray(f) ==
    f.doc.v[CHOOSE i \in 1..Len(f.doc.v) : f.doc.v[i].value.t = "array"].value.v

Malformed(f) ==
    \/ f.cut > 0
    \/ /\ f.doc.t = "object"
       /\ \E i \in 1..Len(f.doc.v) :
             /\ f.doc.v[i].value.t = "array"
             /\ \E j \in 1..Len(f.doc.v[i].value.v) :
                   f.doc.v[i].value.v[j].t # "object"

\* C7: a malformed file is fatal: stageTable does not go on to the next file or
\* to a later state once it has read a malformed file.
C7_MalformedIsFatal ==
    \A k \in 1..Len(Inputs) :
        Malformed(Inputs[k]) =>
            /\ pc \notin {"SchemaFinalize", "LoadPass", "Done"}
            /\ page <= k

\* C8: every record text handed off is valid JSON (a trailing comma allowed) and
\* re-parses to the element of the record array it was reassembled from.
C8_RecordTextValid ==
    (parsing /\ pc \in {"AnalyzePass", "LoadPass"}
        /\ RootObjectWithRecordArray(CurrentFile)) =>
        \A k \in 1..Len(processed) :
            /\ k <= Len(RecordArray(CurrentFile))
            /\ ParseInsitu(processed[k].text) =
                  [error |-> FALSE, root |-> RecordArray(CurrentFile)[k]]

\* The INSERT statements among the executed statements.
Inserts == SelectSeq(executed, LAMBDA q : q.kind = "INSERT")

\* Position in `executed` of the CREATE TABLE statements.
CreateTableAt == {i \in 1..Len(executed) : executed[i].kind = "CREATE TABLE"}

InsertAt == {i \in 1..Len(executed) : executed[i].kind = "INSERT"}

\* The statements a step executes.
Executes == SubSeq(executed', Len(executed) + 1, Len(executed'))

\* C9: stageTable goes from AnalyzePass to SchemaFinalize to LoadPass to Done;
\* no statement is executed during AnalyzePass; CREATE TABLE is executed once,
\* when every input file has been analyzed and before any INSERT; and every
\* INSERT is executed during LoadPass.
C9_StagingOrder ==
    /\ [](/\ pc \in {"Start", "AnalyzePass"} => executed = <<>>
          /\ Cardinality(CreateTableAt) <= 1
          /\ pc \in {"LoadPass", "Done"} => Cardinality(CreateTableAt) = 1
          /\ \A i \in InsertAt : \E c \in CreateTableAt : c < i)
    /\ [][/\ pc' # pc =>
                <<pc, pc'>> \in {<<"Start", "AnalyzePass">>,
                                 <<"Start", "Failed">>,
                                 <<"AnalyzePass", "SchemaFinalize">>,
                                 <<"SchemaFinalize", "LoadPass">>,
                                 <<"SchemaFinalize", "Failed">>,
                                 <<"LoadPass", "Done">>,
                                 <<"LoadPass", "Failed">>,
                                 <<"LoadPass", "Aborted">>}
          /\ \A i \in 1..Len(Executes) :
                /\ Executes[i].kind = "INSERT" => pc = "LoadPass"
                /\ Executes[i].kind = "CREATE TABLE" =>
                      /\ pc = "SchemaFinalize"
                      /\ ~parsing
                      /\ page > Len(Inputs)]_vars

C9_Witness ==
    /\ pc = "Done"
    /\ Len(Inserts) >= 3
    /\ Len(pages) = 2

\* The tuple list of an INSERT statement: the text between the header and ";\n".
TupleList(stmt) == SubSeq(stmt.text, Len(beginInserts) + 1, Len(stmt.text) - 1)

RECURSIVE JoinTuples(_)
\* Tuples joined by commas, as they stand in INSERT statements.
JoinTuples(tuples) ==
    IF tuples = <<>> THEN <<>>
    ELSE IF Len(tuples) = 1 THEN tuples[1]
    ELSE tuples[1] \o <<",">> \o JoinTuples(Tail(tuples))

RECURSIVE TupleLists(_)
TupleLists(stmts) ==
    IF stmts = <<>> THEN <<>>
    ELSE <<TupleList(Head(stmts))>> \o TupleLists(Tail(stmts))

\* C10: when staging is Done, the tuples of the executed INSERT statements are
\* exactly the tuples encoded in the load pass, each once and in input order.
C10_EveryTupleExecutedOnce ==
    pc = "Done" =>
        JoinTuples(TupleLists(Inserts)) = JoinTuples(encoded)

(***************************************************************************)
(* Claims about the Anonymizer (checked under Spec)                        *)
(***************************************************************************)

\* The scalars of the k-th record handed off, as parsed, in visiting order.
ScalarsBefore(k) == Visits(SortedDoc(processed[k].parsed), <<>>, 0, <<>>)

\* The file being read is read in the load pass of a table that is anonymized.
AnonymizingLoad == pass = 2 /\ tableName = UserUsers

\* A scalar the policy flags and the anonymizer has a neutral value for.
Flagged(visit) ==
    /\ possiblePersonalData(visit.path)
    /\ visit.node.t \in {"bool", "number", "int64", "double", "string"}

\* C11: in the load pass of an anonymized table, every boolean, number or
\* string of a record at a path the policy flags holds, in the document that is
\* encoded, the neutral value of its type (false, 0 or the empty string).
C11_FlaggedValuesReplaced ==
    AnonymizingLoad =>
        \A k \in 1..Len(processed) :
            \A j \in 1..Len(ScalarsBefore(k)) :
                LET visit == ScalarsBefore(k)[j] IN
                Flagged(visit) =>
                    ValueAt(processed[k].doc, visit.at) = Neutral(visit.node)

RECURSIVE Shape(_)
RECURSIVE MembersShape(_)
RECURSIVE ElementsShape(_)
\* The document with every scalar value left out: its objects with their member
\* names and its arrays with their lengths.
Shape(x) ==
    CASE x.t = "object" -> JObj(MembersShape(x.v))
      [] x.t = "array" -> JArr(ElementsShape(x.v))
      [] OTHER -> JNull

MembersShape(m) ==
    IF m = <<>> THEN <<>>
    ELSE <<Member(Head(m).name, Shape(Head(m).value))>> \o MembersShape(Tail(m))

ElementsShape(e) ==
    IF e = <<>> THEN <<>> ELSE <<Shape(Head(e))>> \o ElementsShape(Tail(e))

\* C12: processJSONRecord leaves every record its objects, member names and
\* array lengths; it changes no scalar that is not flagged; and it changes no
\* value at all when the table is not anonymized.
C12_ShapePreserved ==
    \A k \in 1..Len(processed) :
        /\ Shape(processed[k].doc) = Shape(SortedDoc(processed[k].parsed))
        /\ \A j \in 1..Len(ScalarsBefore(k)) :
              LET visit == ScalarsBefore(k)[j] IN
              ~Flagged(visit) => ValueAt(processed[k].doc, visit.at) = visit.node
        /\ ~AnonymizingLoad => processed[k].doc = SortedDoc(processed[k].parsed)

(***************************************************************************)
(* Claims about the Row Encoder (checked under Spec)                       *)
(***************************************************************************)

RECURSIVE Commas(_, _, _)
\* The commas of t[lo..hi] that stand outside string constants: `odd` tells
\* whether the part holds an odd number of quotes, `out` the places of those
\* commas when the part starts outside a string constant, `in` when inside.
Commas(t, lo, hi) ==
    IF lo = hi
    THEN [odd |-> t[lo] = "'",
          out |-> IF t[lo] = "," THEN <<lo>> ELSE <<>>,
          in |-> <<>>]
    ELSE LET mid == (lo + hi) \div 2
             l == Commas(t, lo, mid)
             r == Commas(t, mid + 1, hi)
         IN  [odd |-> l.odd # r.odd,
              out |-> l.out \o (IF l.odd THEN r.in ELSE r.out),
              in |-> l.in \o (IF l.odd THEN r.out ELSE r.in)]

RECURSIVE Between(_, _, _)
\* The parts of t from place `from` on, cut at the places `at`.
Between(t, from, at) ==
    IF at = <<>> THEN <<SubSeq(t, from, Len(t))>>
    ELSE <<SubSeq(t, from, Head(at) - 1)>> \o Between(t, Head(at) + 1, Tail(at))

\* The values of a tuple "(v1,v2,...)" as SQL reads it.
SqlValues(tuple) ==
    LET t == SubSeq(tuple, 2, Len(tuple) - 1) IN
    Between(t, 1, Commas(t, 1, Len(t)).out)

\* The tuples written in the load pass for the records of the file being read,
\* in order: the last ones of `encoded`.
WrittenCount == Cardinality({k \in 1..Len(processed) : processed[k].written})

WrittenBefore(k) == Cardinality({j \in 1..k : processed[j].written})

\* The tuple written for the k-th record handed off.
TupleOf(k) == encoded[Len(encoded) - WrittenCount + WrittenBefore(k)]

\* Number of values writeTuple writes for a column.
Width(column) ==
    IF column.columnName = IdName THEN 0
    ELSE IF column.columnType = "id" THEN 2
    ELSE 1

RECURSIVE WidthUpTo(_, _)
WidthUpTo(cols, c) == IF c = 0 THEN 0 ELSE WidthUpTo(cols, c - 1) + Width(cols[c])

\* The value of the tuple that belongs to column c: after sk and id, and after
\* the surrogate key of the column itself when the column is of type id.
ValueOf(k, c) == SqlValues(TupleOf(k))[2 + WidthUpTo(columns, c)]

\* Column c holds a string column value of the k-th record.
StringColumnValue(k, c) ==
    LET x == processed[k].doc
        i == FindMember(x, columns[c].sourceColumnName)
    IN  /\ columns[c].columnName # IdName
        /\ columns[c].columnType \in {"id", "timestamptz", "varchar"}
        /\ i # 0
        /\ x.v[i].value.t = "string"

ValueIn(k, c) ==
    processed[k].doc.v[FindMember(processed[k].doc, columns[c].sourceColumnName)].value.v

Warned(kind, k, name) ==
    \E w \in 1..Len(warnings) :
        /\ warnings[w].kind = kind
        /\ warnings[w].column = name
        /\ warnings[w].id = IdOf(processed[k].doc)

\* C13: a string column value of 65535 bytes is written as NULL, with a
\* warning; one of 65534 bytes is written as its escaped constant; every value
\* is written as its whole constant or as NULL; and the warning is logged
\* exactly when NULL stands for a value.
C13_StringLimit ==
    \A k \in 1..Len(processed) : \A c \in 1..Len(columns) :
        (processed[k].written /\ StringColumnValue(k, c)) =>
            LET value == ValueIn(k, c)
                warned == Warned("String length exceeds database limit", k,
                                 columns[c].columnName)
            IN  /\ TextLen(value) = StringLimit =>
                      ValueOf(k, c) = <<"NULL">> /\ warned
                /\ TextLen(value) = StringLimit - 1 =>
                      ValueOf(k, c) = encodeStringConst(value)
                /\ ValueOf(k, c) \in {encodeStringConst(value), <<"NULL">>}
                /\ warned <=> ValueOf(k, c) = <<"NULL">>

\* The `data` value of the tuple of the k-th record: the last but one.
DataOf(k) == SqlValues(TupleOf(k))[Len(SqlValues(TupleOf(k))) - 1]

\* C14: the data field holds the escaped pretty-printed JSON of the record when
\* that is within the limit of string columns; else the escaped compact JSON
\* when that is within the limit; else NULL, with a warning; and in each case
\* the tuple is written.
C14_DataFallback ==
    \A k \in 1..Len(processed) :
        processed[k].written =>
            LET x == processed[k].doc
                prettyText == encodeStringConst(WriteValue(x, TRUE, 0))
                compactText == encodeStringConst(WriteValue(x, FALSE, 0))
            IN  /\ ~ExceedsStringLimit(prettyText) => DataOf(k) = prettyText
                /\ (ExceedsStringLimit(prettyText)
                        /\ ~ExceedsStringLimit(compactText)) =>
                      DataOf(k) = compactText
                /\ ExceedsStringLimit(compactText) =>
                      /\ DataOf(k) = <<"NULL">>
                      /\ Warned("JSON object size exceeds database limit", k,
                                <<"d", "a", "t", "a">>)

(***************************************************************************)
(* Claims about type inference and the page count (checked under Spec)     *)
(***************************************************************************)

\* A record all of whose member names are re-encoded to valid JSON by Key.
PlainNames(x) ==
    \A j \in 1..Len(Visits(x, <<>>, 0, <<>>)) :
        \A i \in 1..Len(Visits(x, <<>>, 0, <<>>)[j].path) :
            Visits(x, <<>>, 0, <<>>)[j].path[i] \notin {QUOTE, BSLASH}

\* Every input file is a page as the source API returns it.
RegularInputs ==
    \A k \in 1..Len(Inputs) :
        /\ RootObjectWithRecordArray(Inputs[k])
        /\ \A r \in 1..Len(RecordArray(Inputs[k])) :
              PlainNames(RecordArray(Inputs[k])[r])

\* The scalar members of the records of the input files: file, record, member.
Observations ==
    {o \in (1..Len(Inputs)) \X (1..6) \X (1..6) :
        /\ o[2] <= Len(RecordArray(Inputs[o[1]]))
        /\ o[3] <= Len(RecordArray(Inputs[o[1]])[o[2]].v)
        /\ RecordArray(Inputs[o[1]])[o[2]].v[o[3]].value.t \notin {"object", "array"}}

Observed(o) == RecordArray(Inputs[o[1]])[o[2]].v[o[3]]

\* The counters of a field as a function of the set of its observed values.
ObservedCounts(f) ==
    LET of == {o \in Observations : Observed(o).name = f}
        strings == {o \in of : Observed(o).value.t = "string"}
    IN  [null |-> Cardinality({o \in of : Observed(o).value.t = "null"}),
         boolean |-> Cardinality({o \in of : Observed(o).value.t = "bool"}),
         number |-> Cardinality({o \in of :
                                   Observed(o).value.t \in {"number", "int64", "double"}}),
         integer |-> Cardinality({o \in of :
                                    Observed(o).value.t \in {"number", "int64"}}),
         floating |-> Cardinality({o \in of : Observed(o).value.t = "double"}),
         string |-> Cardinality(strings),
         uuid |-> Cardinality({o \in strings : isUUID(Observed(o).value.v)}),
         dateTime |-> Cardinality({o \in strings :
                                     looksLikeDateTime(Observed(o).value.v)})]

ObservedStats == [f \in {Observed(o).name : o \in Observations} |-> ObservedCounts(f)]

\* C15: after the analyze pass the counters of every field are those of the set
\* of values observed for the field in the records of all input files, whatever
\* the order of records and pages, and the columns are those derived from them.
C15_CountersOfObservedValues ==
    RegularInputs =>
        /\ pc = "SchemaFinalize" => stats = ObservedStats
        /\ (pc = "LoadPass" /\ ~parsing) => columns = TableColumns(ObservedStats)

C15_Witness ==
    /\ pc = "LoadPass"
    /\ ~parsing
    /\ RegularInputs
    /\ Len(Inputs) = 3
    /\ Inputs[1] # Inputs[2]
    /\ \E c \in 1..Len(columns) : columns[c].columnType = "id"
    /\ \E c \in 1..Len(columns) : columns[c].columnType = "numeric"

\* C16 as stated: without the _count.txt file no INSERT is executed.
C16_NothingStaged ==
    manifest = "missing" => InsertAt = {}

\* C16 amended: without the _count.txt file readPageCount logs a warning and
\* returns 0, stageTable raises no error of its own, no numbered page file is
\* read in either pass, and no INSERT is executed unless the table has a
\* _test.json file, which is staged as usual.
C16_MissingManifest ==
    (manifest = "missing" /\ pc # "Start") =>
        /\ \E w \in 1..Len(warnings) : warnings[w].kind = "File not found"
        /\ pageCount = 0
        /\ Inputs = testFile
        /\ parsing => events = FileEvents(testFile[1])
        /\ pc = "Failed" => failed # <<>>
        /\ testFile = <<>> => InsertAt = {}

C16_Witness ==
    /\ manifest = "missing"
    /\ pages # <<>>
    /\ testFile = <<>>
    /\ pc = "Done"

(***************************************************************************)
(* Database failures (checked under PipelineSpec)                          *)
(***************************************************************************)

\* stageTable with the staging of a table in detail, or mergeTable on a loading
\* table that has been staged.
PipelineNext ==
    \/ Next
    \/ pc = "Staged" /\ MergeNext

PipelineSpec == (Init \/ MergeInit) /\ [][PipelineNext]_vars

\* C17: a statement that fails is recorded once; in the step in which it fails
\* it is not executed, the statements executed before stay executed, the
\* history table is as it was, and stageTable ends with the failure; after a
\* failure no statement is executed and no table changes.
C17_FailureIsFatal ==
    /\ [][failed' # failed =>
            /\ failed = <<>>
            /\ Len(failed') = 1
            /\ Len(executed') >= Len(executed)
            /\ SubSeq(executed', 1, Len(executed)) = executed
            /\ \A i \in 1..Len(Executes) : Executes[i] # failed'[1]
            /\ failed'[1].kind \in {"INSERT", "CREATE TABLE", "GRANT",
                                    "COMMENT ON TABLE"} => pc' = "Failed"
            /\ Len(Executes) > 0 => Executes[1].kind = "CREATE TABLE"
            /\ historyTable' = historyTable
            /\ loadingTable' = loadingTable]_vars
    /\ [][failed # <<>> =>
            UNCHANGED <<failed, executed, historyTable, latestHistoryTable,
                        loadingTable, pc>>]_vars

\* An INSERT has failed after the table was created and tuples were executed.
C17_Witness ==
    /\ pc = "Failed"
    /\ failed # <<>>
    /\ failed[1].kind = "INSERT"
    /\ InsertAt # {}

(***************************************************************************)
(* Claims about tuples, the record buffer and the passes (under Spec)      *)
(***************************************************************************)

\* The CREATE TABLE statement executed for the loading table.
CreateTableText == executed[CHOOSE i \in CreateTableAt : TRUE].text

RECURSIVE Places(_, _, _, _)
\* The places of symbol c in t[lo..hi], in order.
Places(t, c, lo, hi) ==
    IF lo > hi THEN <<>>
    ELSE IF lo = hi THEN (IF t[lo] = c THEN <<lo>> ELSE <<>>)
    ELSE Places(t, c, lo, (lo + hi) \div 2)
            \o Places(t, c, (lo + hi) \div 2 + 1, hi)

\* The column definitions of the CREATE TABLE statement, in order: the parts
\* that end in ",\n", but for the PRIMARY KEY clause.
ColumnDefs ==
    LET t == CreateTableText
        parts == Between(t, 1, Places(t, ",\n", 1, Len(t)))
    IN  SubSeq(parts, 1, Len(parts) - 2)

\* The SQL type a column definition ends with.
TypeOf(def) == def[Len(def)]

\* A value of a tuple is NULL or a literal of the column's type.
Conforms(value, type) ==
    CASE type \in {"sk BIGINT NOT NULL", "tenant_id SMALLINT NOT NULL"} ->
            \A i \in 1..Len(value) : value[i] \in DigitSet
      [] type = "id VARCHAR(65535) NOT NULL" ->
            Head(value) = "'" /\ value[Len(value)] = "'"
      [] type \in {" BIGINT", "BIGINT"} ->
            \/ value = <<"NULL">>
            \/ \A i \in 1..Len(value) : value[i] \in DigitSet \cup {"-"}
      [] type = "BOOLEAN" -> value \in {<<"NULL">>, <<"TRUE">>, <<"FALSE">>}
      [] type = "NUMERIC(12,2)" ->
            \/ value = <<"NULL">>
            \/ \A i \in 1..Len(value) : value[i] \in DigitSet \cup {"-", "."}
      [] OTHER ->
            \/ value = <<"NULL">>
            \/ Head(value) = "'" /\ value[Len(value)] = "'"

\* A tuple has just been written for the record that was handed off last.
JustWritten ==
    /\ parsing
    /\ processed # <<>>
    /\ processed[Len(processed)].at = pos
    /\ processed[Len(processed)].written

\* Column c is absent from the record handed off last, or null in it.
AbsentOrNull(c) ==
    LET x == processed[Len(processed)].doc
        i == FindMember(x, columns[c].sourceColumnName)
    IN  i = 0 \/ x.v[i].value.t = "null"

\* C18: the tuple written for a record has as many values as the CREATE TABLE
\* statement of the loading table has columns, each value is NULL or a literal
\* of the type of the column at its place, and an absent or null column yields
\* NULL, twice when the column is of type id.
C18_TupleMatchesTable ==
    JustWritten =>
        LET k == Len(processed)
            values == SqlValues(TupleOf(k))
        IN  /\ Len(values) = Len(ColumnDefs)
            /\ \A i \in 1..Len(values) : Conforms(values[i], TypeOf(ColumnDefs[i]))
            /\ \A c \in 1..Len(columns) :
                  (columns[c].columnName # IdName /\ AbsentOrNull(c)) =>
                      /\ ValueOf(k, c) = <<"NULL">>
                      /\ columns[c].columnType = "id" =>
                            values[1 + WidthUpTo(columns, c)] = <<"NULL">>

\* A tuple for a record that lacks a column of type id and a column of another
\* type, in a table that also has a column the record holds.
C18_Witness ==
    /\ JustWritten
    /\ \E c \in 1..Len(columns) : columns[c].columnType = "id" /\ AbsentOrNull(c)
    /\ \E c \in 1..Len(columns) :
          columns[c].columnType \notin {"id", "varchar"} /\ AbsentOrNull(c)
    /\ Len(SqlValues(TupleOf(Len(processed)))) >= 8

\* C19: whenever the handler is outside a record (at level 2 or below) the
\* record buffer is empty.
C19_BufferEmptyOutsideRecord ==
    (parsing /\ level <= 2) => record = <<>>

\* The statistics after a record, collected from the values as parsed.
StatsOfOriginal(st, x) ==
    ProcessVisits(SortedDoc(x), st, Visits(SortedDoc(x), <<>>, 0, <<>>),
                  TRUE, FALSE).stats

\* C20: in the analyze pass of any table and in the load pass of a table that
\* is not anonymized the document processJSONRecord leaves has the values of the
\* record as parsed, and the statistics change in the analyze pass only, by the
\* counts of the values as parsed.
C20_AnonymizerOnlyInLoad ==
    /\ [](~AnonymizingLoad =>
              \A k \in 1..Len(processed) :
                  processed[k].doc = SortedDoc(processed[k].parsed))
    /\ [][stats' # stats =>
              /\ pass = 1
              /\ Len(processed') = Len(processed) + 1
              /\ stats' = StatsOfOriginal(stats, processed'[Len(processed')].parsed)]_vars

\* A record with a UUID at a flagged path has been analyzed for user_users.
C20_Witness ==
    /\ pass = 1
    /\ tableName = UserUsers
    /\ \E k \in 1..Len(processed) :
          \E j \in 1..Len(ScalarsBefore(k)) :
              /\ Flagged(ScalarsBefore(k)[j])
              /\ ScalarsBefore(k)[j].node.t = "string"
              /\ isUUID(ScalarsBefore(k)[j].node.v)
    /\ \E f \in DOMAIN stats : stats[f].uuid > 0

(***************************************************************************)
(* Claims about the canonical member order (checked under Spec)            *)
(***************************************************************************)
RECURSIVE Canonical(_)
\* Every object of x has the member named id first and its other members in
\* ascending order of name.
Canonical(x) ==
    CASE x.t = "object" ->
            /\ \A i \in 1..Len(x.v) : x.v[i].name = IdName => i = 1
            /\ \A i, j \in 1..Len(x.v) :
                  (i < j /\ x.v[i].name # IdName)
                      => StrLess(x.v[i].name, x.v[j].name)
            /\ \A i \in 1..Len(x.v) : Canonical(x.v[i].value)
      [] x.t = "array" -> \A i \in 1..Len(x.v) : Canonical(x.v[i])
      [] OTHER -> TRUE

RECURSIVE Reversed(_)
Reversed(m) == IF m = <<>> THEN <<>> ELSE Append(Reversed(Tail(m)), Head(m))

\* The members of an object in reverse order, and moved round by one.
Reordered(x) ==
    IF x.t = "object" /\ x.v # <<>>
    THEN {JObj(Reversed(x.v)), JObj(Append(Tail(x.v), Head(x.v)))}
    ELSE {x}

\* processJSONRecord has returned for the k-th record handed off.
Returned(k) == k < Len(processed) \/ pc # "Aborted"

RECURSIVE Paths(_)
Paths(visits) ==
    IF visits = <<>> THEN <<>> ELSE <<Head(visits).path>> \o Paths(Tail(visits))

\* The paths processJSONRecord builds for the scalars of a document.
PathsOf(x) == Paths(Visits(x, <<>>, 0, <<>>))

\* C21: after processJSONRecord has processed a record, in either pass, every
\* object of the document has the member named id first and the others in
\* ascending order of name, and the same record with its members in another
\* order gives the same document, so the same paths and the same data text.
C21_CanonicalOrder ==
    \A k \in 1..Len(processed) :
        Returned(k) =>
            /\ Canonical(processed[k].doc)
            /\ \A r \in Reordered(processed[k].parsed) :
                  LET other == processJSONRecord(r, FALSE, AnonymizesTable(pass, tableName),
                                                 stats).doc
                  IN  /\ other = processed[k].doc
                      /\ PathsOf(other) = PathsOf(processed[k].doc)
                      /\ DataField(other) = DataField(processed[k].doc)

(***************************************************************************)
(* Claims about integer and boolean columns (checked under Spec)           *)
(***************************************************************************)

\* The member of the k-th record handed off that column c is written from, or
\* JNull when the record has none.
SourceOf(k, c) ==
    LET x == processed[k].doc
        i == FindMember(x, columns[c].sourceColumnName)
    IN  IF columns[c].columnName # IdName /\ i # 0 THEN x.v[i].value ELSE JNull

\* C22: in every tuple written, the value of a bigint column is the decimal
\* text of the integer the document holds for it, also when the integer does
\* not fit 32 bits, and the value of a boolean column is TRUE for true and
\* FALSE for false.
C22_IntegersVerbatim ==
    \A k \in 1..Len(processed) :
        processed[k].written =>
            \A c \in 1..Len(columns) :
                /\ (columns[c].columnType = "bigint"
                        /\ SourceOf(k, c).t \in {"number", "int64"})
                      => ValueOf(k, c) = WriteValue(SourceOf(k, c), FALSE, 0)
                /\ (columns[c].columnType = "boolean" /\ SourceOf(k, c).t = "bool")
                      => ValueOf(k, c) = IF SourceOf(k, c).v THEN <<"TRUE">>
                                                             ELSE <<"FALSE">>

(***************************************************************************)
(* Claims about the insert buffer and its record counter (under Spec)      *)
(***************************************************************************)

\* The last n tuples written.
LastEncoded(n) == SubSeq(encoded, Len(encoded) - n + 1, Len(encoded))

\* C23: in the load pass the record counter is the number of tuples in the
\* insert buffer that are not executed yet: the buffer holds the header and the
\* last recordCount tuples written, and the counter is zero when the buffer is
\* empty, as it is after the INSERT executed at the end of the record array.
C23_CounterMatchesBuffer ==
    (pc = "LoadPass" /\ parsing) =>
        IF insertBuffer \in {<<>>, beginInserts}
        THEN recordCount = 0
        ELSE /\ recordCount <= Len(encoded)
             /\ insertBuffer = beginInserts \o JoinTuples(LastEncoded(recordCount))

\* The opener of the container that holds the value closed by event p.
Enclosing(ev, p) ==
    CHOOSE q \in 1..p :
        /\ ev[q].e \in {"StartObject", "StartArray"}
        /\ DepthAfter(ev, q) = DepthAfter(ev, p)
        /\ \A r \in (q + 1)..p :
              ev[r].e \in {"StartObject", "StartArray"}
                  => DepthAfter(ev, r) # DepthAfter(ev, p)

\* The events that close an object that is a direct element of a record array,
\* an array held at depth 1.
ElementEnds(ev) ==
    {p \in ObjectEnds(ev, 2) : ev[Enclosing(ev, p)].e = "StartArray"}

\* C24: for a well-formed file, every record handed off (re-parsed, counted and
\* encoded) is an object that is a direct element of the record array.
C24_OnlyElementsHandedOff ==
    (parsing /\ CurrentFile.cut = 0) =>
        \A k \in 1..Len(processed) : processed[k].at \in ElementEnds(events)

RECURSIVE Marks(_, _, _, _)
\* The places of t[lo..hi] that hold a parenthesis outside the string constants
\* (`out`: when the part starts outside a constant; `in`: when it starts inside).
Marks(t, S, lo, hi) ==
    IF lo = hi
    THEN [odd |-> t[lo] = "'",
          out |-> IF t[lo] \in S THEN <<lo>> ELSE <<>>,
          in |-> <<>>]
    ELSE LET mid == (lo + hi) \div 2
             l == Marks(t, S, lo, mid)
             r == Marks(t, S, mid + 1, hi)
         IN  [odd |-> l.odd # r.odd,
              out |-> l.out \o (IF l.odd THEN r.in ELSE r.out),
              in |-> l.in \o (IF l.odd THEN r.out ELSE r.in)]

\* The statement is the header, one or more tuples "(...)" with one comma
\* between two of them and none before the first, and ";".
WellFormedInsert(stmt) ==
    LET body == TupleList(stmt)
        marks == Marks(body, {"(", ")"}, 1, Len(body)).out
    IN  /\ Len(stmt.text) > Len(beginInserts) + 1
        /\ SubSeq(stmt.text, 1, Len(beginInserts)) = beginInserts
        /\ stmt.text[Len(stmt.text)] = ";\n"
        /\ Len(marks) >= 2
        /\ marks[1] = 1
        /\ marks[Len(marks)] = Len(body)
        /\ \A i \in 1..Len(marks) :
              /\ body[marks[i]] = IF i % 2 = 1 THEN "(" ELSE ")"
              /\ (i % 2 = 0 /\ i < Len(marks)) =>
                    /\ marks[i + 1] = marks[i] + 2
                    /\ body[marks[i] + 1] = ","

\* C25: every INSERT statement executed is well formed and holds at least one
\* tuple.
C25_InsertsWellFormed ==
    [][\A i \in 1..Len(Executes) :
          Executes[i].kind = "INSERT" => WellFormedInsert(Executes[i])]_vars

====
